---- MODULE Spec2Model ----
(***************************************************************************)
(* Model of subp2p-explorer:                                               *)
(*   - the authority discovery engine (cli/src/commands/authorities.rs):   *)
(*     struct AuthorityDiscovery, its scheduling methods, handle_swarm,    *)
(*     the discover loop and the final report;                             *)
(*   - the notifications connection handler                                *)
(*     (subp2p-explorer/src/notifications/handler.rs).                     *)
(* Methods are state transformers over a record that holds the fields of   *)
(* the struct; every action applies one whole handler.                     *)
(***************************************************************************)
EXTENDS Integers, Sequences, FiniteSets, TLC

VARIABLES
    engine,     \* the AuthorityDiscovery struct (with its swarm)
    pc,         \* position of discover_authorities: "new", "loop", "done"
                \* (discover has returned) or "reported"
    budget,     \* the events the select loop may still handle within the bounds
    last,       \* the step just taken
    handler,    \* a NotificationsHandler
    conn        \* the connection of the handler, as the swarm sees it

vars == <<engine, pc, budget, last, handler, conn>>

----------------------------------------------------------------------------
(* Bounds of the model *)

\* largest authority list handed to the engine (one more than MAX_QUERIES)
MaxAuth == 9
\* longest of the short authority lists
MaxList == 2
\* swarm events and resubmit_timer ticks the select loop handles in one run
MaxSteps == 3
\* the same, for the runs over a list of MaxAuth authorities
MaxCapSteps == 2
\* records that do not decode, in the runs where every query delivers a valid
\* record
MaxNoise == 1
\* events and polls of the notifications handler in one run
MaxHandlerSteps == 7
\* the same, for the runs that close a protocol and reopen it from the remote
MaxLongHandlerSteps == 8
\* most messages an outbound substream accepts during one poll
MaxReady == 2
\* longest address list of a record handed to decode_dht_record on its own
MaxAddrs == 2

(* Program constants *)

MAX_QUERIES == 8
MAX_DISCOVERY_QUERIES == 32

----------------------------------------------------------------------------
(* Small helpers *)

Min(a, b) == IF a < b THEN a ELSE b

Range(f) == {f[x] : x \in DOMAIN f}

\* map.remove(k)
MapRemove(f, k) == [x \in DOMAIN f \ {k} |-> f[x]]

\* map.insert(k, v): overwrites
MapInsert(f, k, v) == (k :> v) @@ f

EmptyMap == <<>>

RECURSIVE SetToSeq(_)
SetToSeq(S) ==
    IF S = {} THEN <<>>
    ELSE LET m == CHOOSE x \in S : \A y \in S : x <= y
         IN <<m>> \o SetToSeq(S \ {m})

Take(seq, n) == SubSeq(seq, 1, Min(n, Len(seq)))

----------------------------------------------------------------------------
(* Values: Option<T> is a sequence of length at most one *)

None == <<>>
Some(x) == <<x>>

(* Identifiers.  An sr25519 public key (AuthorityId) is a number 1..MaxAuth;
   a libp2p public key is a number in PeerKeys. *)

AuthorityIds == 1..MaxAuth
PeerKeys == {1, 2}

\* libp2p::identity::PublicKey::to_peer_id: the peer identifier of a key
ToPeerId(public_key) == 200 + public_key

PeerIds == {ToPeerId(k) : k \in PeerKeys}

\* hash_authority_id: SHA2-256 of the authority id, as a Kademlia key
HashAuthorityId(id) == 100 + id

\* a key no authority hashes to
ForeignKey == HashAuthorityId(0)

(* Multi-addresses: a sequence of protocol segments *)

Seg(proto, val) == [proto |-> proto, val |-> val]
Addr(host, peer) == <<Seg("ip4", host), Seg("tcp", 30333), Seg("p2p", peer)>>
AddrNoPeer(host) == <<Seg("ip4", host), Seg("tcp", 30333)>>
\* bytes that are no multi-address
AddrInvalid == <<Seg("invalid", 0)>>

\* get_peer_id: the terminal P2p segment of an address
get_peer_id(address) ==
    IF Len(address) > 0 /\ address[Len(address)].proto = "p2p"
    THEN Some(address[Len(address)].val)
    ELSE None

\* Multiaddr::try_from(bytes)
ParseMultiaddr(raw) ==
    IF \E i \in 1..Len(raw) : raw[i].proto = "invalid"
    THEN [ok |-> FALSE, addr |-> <<>>]
    ELSE [ok |-> TRUE, addr |-> raw]

(* Signatures are symbolic: a signature names its signer and the message it
   was made over; signer 0 is bytes that are no signature of anybody. *)

Sig(signer, msg) == [signer |-> signer, msg |-> msg]

\* sr25519::verify
sr25519_verify(sig, message, pubkey) ==
    /\ sig.signer = pubkey
    /\ sig.msg = message

\* libp2p PublicKey::verify
PeerKeyVerify(public_key, message, sig) ==
    /\ sig.signer = public_key
    /\ sig.msg = message

\* schema::AuthorityRecord bytes: whether they decode, and the raw addresses
AuthorityRecord(addresses) == [decodes |-> TRUE, addresses |-> addresses]

\* schema::SignedAuthorityRecord bytes.  auth_signature is a byte string of
\* length len whose first 64 bytes (when present) are the signature sig.
SignedAuthorityRecord(record, auth_len, auth_sig, peer_signature) ==
    [decodes |-> TRUE, record |-> record,
     auth_signature |-> [len |-> auth_len, sig |-> auth_sig],
     peer_signature |-> peer_signature]

PeerSignature(key_decodes, public_key, sig) ==
    [key_decodes |-> key_decodes, public_key |-> public_key, signature |-> sig]

Err(e) == [ok |-> FALSE, err |-> e, peer_id |-> 0, addresses |-> <<>>]
Ok(peer_id, addresses) ==
    [ok |-> TRUE, err |-> "", peer_id |-> peer_id, addresses |-> addresses]

\* <[u8; 64] as Decode>::decode(&mut &bytes[..]): reads 64 bytes of the input
SignatureDecode(auth_signature) == auth_signature.len >= 64

\* addresses.iter().filter_map(get_peer_id).collect::<HashSet<_>>()
PeerIdsOf(addresses) ==
    {get_peer_id(addresses[i])[1] :
        i \in {j \in 1..Len(addresses) : get_peer_id(addresses[j]) # None}}

\* decode_dht_record that asks for at least one peer id among the addresses
decode_dht_record_some_peer(value, authority_id) ==
    IF ~value.decodes THEN Err("payload decode")
    ELSE IF ~SignatureDecode(value.auth_signature) THEN Err("signature decode")
    ELSE IF ~sr25519_verify(value.auth_signature.sig, value.record, authority_id)
    THEN Err("Cannot verify DHT payload")
    ELSE IF ~value.record.decodes THEN Err("record decode")
    ELSE LET raw == value.record.addresses
             parsed == [i \in 1..Len(raw) |-> ParseMultiaddr(raw[i])]
             addresses == [i \in 1..Len(raw) |-> parsed[i].addr]
             peer_ids == PeerIdsOf(addresses)
         IN IF \E i \in 1..Len(raw) : ~parsed[i].ok THEN Err("multiaddr")
            ELSE IF addresses = <<>>
            THEN Err("No addresses found in the DHT record")
            ELSE IF Cardinality(peer_ids) < 1
            THEN Err("All addresses must point to the same peerId")
            ELSE LET peer_id == CHOOSE p \in peer_ids : TRUE
                     peer_signature == value.peer_signature
                 IN IF peer_signature = None THEN Err("Payload is not signed")
                    ELSE IF ~peer_signature[1].key_decodes
                    THEN Err("public key decode")
                    ELSE IF peer_id # ToPeerId(peer_signature[1].public_key)
                    THEN Err("PeerId does not match the public key")
                    ELSE IF ~PeerKeyVerify(peer_signature[1].public_key,
                                           value.record,
                                           peer_signature[1].signature)
                    THEN Err("Peer signature verification failed")
                    ELSE Ok(peer_id, addresses)

\* decode_dht_record that returns only the addresses that name the peer
decode_dht_record_peer_addresses(value, authority_id) ==
    IF ~value.decodes THEN Err("payload decode")
    ELSE IF ~SignatureDecode(value.auth_signature) THEN Err("signature decode")
    ELSE IF ~sr25519_verify(value.auth_signature.sig, value.record, authority_id)
    THEN Err("Cannot verify DHT payload")
    ELSE IF ~value.record.decodes THEN Err("record decode")
    ELSE LET raw == value.record.addresses
             parsed == [i \in 1..Len(raw) |-> ParseMultiaddr(raw[i])]
             addresses == [i \in 1..Len(raw) |-> parsed[i].addr]
             peer_ids == PeerIdsOf(addresses)
         IN IF \E i \in 1..Len(raw) : ~parsed[i].ok THEN Err("multiaddr")
            ELSE IF addresses = <<>>
            THEN Err("No addresses found in the DHT record")
            ELSE IF Cardinality(peer_ids) # 1
            THEN Err("All addresses must point to the same peerId")
            ELSE LET peer_id == CHOOSE p \in peer_ids : TRUE
                     peer_signature == value.peer_signature
                 IN IF peer_signature = None THEN Err("Payload is not signed")
                    ELSE IF ~peer_signature[1].key_decodes
                    THEN Err("public key decode")
                    ELSE IF peer_id # ToPeerId(peer_signature[1].public_key)
                    THEN Err("PeerId does not match the public key")
                    ELSE IF ~PeerKeyVerify(peer_signature[1].public_key,
                                           value.record,
                                           peer_signature[1].signature)
                    THEN Err("Peer signature verification failed")
                    ELSE LET NamesPeer(a) == get_peer_id(a) # None
                         IN Ok(peer_id, SelectSeq(addresses, NamesPeer))

\* decode_dht_record
decode_dht_record(value, authority_id) ==
    IF ~value.decodes THEN Err("payload decode")
    ELSE IF ~SignatureDecode(value.auth_signature) THEN Err("signature decode")
    ELSE IF ~sr25519_verify(value.auth_signature.sig, value.record, authority_id)
    THEN Err("Cannot verify DHT payload")
    ELSE IF ~value.record.decodes THEN Err("record decode")
    ELSE LET raw == value.record.addresses
             parsed == [i \in 1..Len(raw) |-> ParseMultiaddr(raw[i])]
             addresses == [i \in 1..Len(raw) |-> parsed[i].addr]
             peer_ids == PeerIdsOf(addresses)
         IN IF \E i \in 1..Len(raw) : ~parsed[i].ok THEN Err("multiaddr")
            ELSE IF addresses = <<>>
            THEN Err("No addresses found in the DHT record")
            ELSE IF Cardinality(peer_ids) # 1
            THEN Err("All addresses must point to the same peerId")
            ELSE LET peer_id == CHOOSE p \in peer_ids : TRUE
                     peer_signature == value.peer_signature
                 IN IF peer_signature = None THEN Err("Payload is not signed")
                    ELSE IF ~peer_signature[1].key_decodes
                    THEN Err("public key decode")
                    ELSE IF peer_id # ToPeerId(peer_signature[1].public_key)
                    THEN Err("PeerId does not match the public key")
                    ELSE IF ~PeerKeyVerify(peer_signature[1].public_key,
                                           value.record,
                                           peer_signature[1].signature)
                    THEN Err("Peer signature verification failed")
                    ELSE Ok(peer_id, addresses)

----------------------------------------------------------------------------
(* The swarm's Kademlia behaviour, as far as the engine uses it: it hands out
   fresh query ids and keeps the queries that may still report progress. *)

NewSwarm == [next_id |-> 1, get_record |-> EmptyMap, closest |-> {}]

\* discovery.get_record(key): starts a query, returns its id (the old next_id).
\* The behaviour keeps the key of the query and whether it has reported yet.
KadGetRecord(swarm, key) ==
    [swarm EXCEPT !.next_id = @ + 1,
                  !.get_record = MapInsert(@, swarm.next_id,
                                    [key |-> key, reported |-> FALSE])]

\* n calls of discovery.get_closest_peers(PeerId::random()): the queries get
\* the next n ids; the random targets are not kept
KadGetClosestPeers(swarm, n) ==
    [swarm EXCEPT !.closest = @ \cup (swarm.next_id .. (swarm.next_id + n - 1)),
                  !.next_id = @ + n]

----------------------------------------------------------------------------
(* struct AuthorityDiscovery.  returned tells whether discover() has
   returned.  Two fields observe the step being taken:
   called holds the methods that ran during it, dropped the query ids that
   resubmit_remaining_dht_queries found in queries when it cleared the map. *)

\* AuthorityDiscovery::new
New(authorities) ==
    [swarm |-> NewSwarm,
     queries |-> EmptyMap,
     records_keys |-> EmptyMap,
     queries_discovery |-> {},
     peer_info |-> EmptyMap,
     peer_details |-> EmptyMap,
     authority_to_details |-> EmptyMap,
     authorities |-> authorities,
     query_index |-> 0,
     dht_errors |-> 0,
     remaining_authorities |-> Range(authorities),
     interval_resubmit |-> 0,
     interval_exit |-> 0,
     returned |-> FALSE,
     called |-> {},
     dropped |-> {}]

Called(s, name) == [s EXCEPT !.called = @ \cup {name}]

\* query_dht_records: one get-record query per authority of the sequence
RECURSIVE query_dht_records(_, _)
query_dht_records(s, authorities) ==
    IF authorities = <<>> THEN s
    ELSE LET authority == Head(authorities)
             key == HashAuthorityId(authority)
             id == s.swarm.next_id
             s0 == Called(s, "get_record")
             s1 == [s0 EXCEPT !.records_keys = MapInsert(@, key, authority),
                             !.swarm = KadGetRecord(@, key),
                             !.queries = MapInsert(@, id, authority)]
         IN query_dht_records(s1, Tail(authorities))

\* the for loop of query_peer_info: n get-closest-peers queries, whose ids
\* go into queries_discovery
InsertClosestQueries(s, n) ==
    [s EXCEPT !.queries_discovery =
                  @ \cup (s.swarm.next_id .. (s.swarm.next_id + n - 1)),
              !.swarm = KadGetClosestPeers(@, n)]

\* query_peer_info that submits MAX_DISCOVERY_QUERIES whenever below the cap
query_peer_info_full(s) ==
    IF Cardinality(s.queries_discovery) < MAX_DISCOVERY_QUERIES
    THEN InsertClosestQueries(Called(s, "query_peer_info"),
                              MAX_DISCOVERY_QUERIES)
    ELSE Called(s, "query_peer_info")

\* query_peer_info
query_peer_info(s) ==
    IF Cardinality(s.queries_discovery) < MAX_DISCOVERY_QUERIES
    THEN InsertClosestQueries(
            Called(s, "query_peer_info"),
            MAX_DISCOVERY_QUERIES - Cardinality(s.queries_discovery))
    ELSE Called(s, "query_peer_info")

\* remaining.shuffle(&mut thread_rng()): rng is the set of authorities the
\* shuffle puts first.  Within the prefix and within the rest the order is
\* ascending: the order of authorities that are submitted together only
\* decides which of the fresh query ids each one gets.
Shuffle(remaining, rng) ==
    SetToSeq(remaining \cap rng) \o SetToSeq(remaining \ rng)

\* the outcomes of the shuffle that differ in the authorities taken
Rngs(remaining) ==
    {T \in SUBSET remaining :
        Cardinality(T) = Min(MAX_QUERIES, Cardinality(remaining))}

\* resubmit_remaining_dht_queries that submits every remaining authority
resubmit_without_take(s, rng) ==
    LET s0 == Called(s, "resubmit_remaining_dht_queries")
        s1 == [s0 EXCEPT !.queries = EmptyMap,
                         !.dropped = @ \cup DOMAIN s0.queries]
        remaining == Shuffle(s1.remaining_authorities, rng)
        s2 == query_dht_records(s1, remaining)
    IN IF Len(remaining) < MAX_QUERIES THEN query_peer_info(s2) ELSE s2

\* resubmit_remaining_dht_queries that keeps the older queries
resubmit_without_clear(s, rng) ==
    LET s1 == Called(s, "resubmit_remaining_dht_queries")
        remaining == Shuffle(s1.remaining_authorities, rng)
        remaining_len == Len(remaining)
        s2 == query_dht_records(s1, Take(remaining, MAX_QUERIES))
    IN IF remaining_len < MAX_QUERIES THEN query_peer_info(s2) ELSE s2

\* resubmit_remaining_dht_queries
resubmit_remaining_dht_queries(s, rng) ==
    LET s0 == Called(s, "resubmit_remaining_dht_queries")
        s1 == [s0 EXCEPT !.queries = EmptyMap,
                         !.dropped = @ \cup DOMAIN s0.queries]
        remaining == Shuffle(s1.remaining_authorities, rng)
        remaining_len == Len(remaining)
        s2 == query_dht_records(s1, Take(remaining, MAX_QUERIES))
    IN IF remaining_len < MAX_QUERIES THEN query_peer_info(s2) ELSE s2

\* the while loop with the resubmission not guarded by queries.is_empty()
RECURSIVE AdvanceLoopResubmitAlways(_, _)
AdvanceLoopResubmitAlways(s, rng) ==
    IF Cardinality(DOMAIN s.queries) < MAX_QUERIES
    THEN IF s.query_index < Len(s.authorities)
         THEN LET next == s.authorities[s.query_index + 1]
                  s1 == query_dht_records(s, <<next>>)
              IN AdvanceLoopResubmitAlways([s1 EXCEPT !.query_index = @ + 1], rng)
         ELSE resubmit_remaining_dht_queries(s, rng)
    ELSE s

\* the while loop of advance_dht_queries
RECURSIVE AdvanceLoop(_, _)
AdvanceLoop(s, rng) ==
    IF Cardinality(DOMAIN s.queries) < MAX_QUERIES
    THEN IF s.query_index < Len(s.authorities)
         THEN LET next == s.authorities[s.query_index + 1]
                  s1 == query_dht_records(s, <<next>>)
              IN AdvanceLoop([s1 EXCEPT !.query_index = @ + 1], rng)
         ELSE IF DOMAIN s.queries = {}
              THEN resubmit_remaining_dht_queries(s, rng)
              ELSE s
    ELSE s

\* advance_dht_queries
advance_dht_queries(s, rng) ==
    query_peer_info(AdvanceLoop(Called(s, "advance_dht_queries"), rng))

----------------------------------------------------------------------------
(* Swarm events *)

FoundRecord(key, value) == [tag |-> "FoundRecord", key |-> key, value |-> value]
FinishedWithNoAdditionalRecord ==
    [tag |-> "FinishedWithNoAdditionalRecord", key |-> 0, value |-> 0]
GetRecordError == [tag |-> "Err", key |-> 0, value |-> 0]

GetRecordEvent(id, result) ==
    [kind |-> "GetRecord", id |-> id, result |-> result]
GetClosestPeersEvent(id) ==
    [kind |-> "GetClosestPeers", id |-> id]
IdentifiedEvent(peer_id, info) ==
    [kind |-> "Identified", peer_id |-> peer_id, info |-> info]
OtherEvent == [kind |-> "Other"]

\* the merge that stores the addresses of the latest record only
MergeRecordReplace(s, authority, peer_id, addresses) ==
    LET found == Range(addresses)
    IN [s EXCEPT
          !.authority_to_details = MapInsert(@, authority, found),
          !.peer_details =
              MapInsert(@, peer_id,
                  [authority_id |-> authority, addresses |-> found])]

\* lines 379-390: merge the addresses of a decoded record
MergeRecord(s, authority, peer_id, addresses) ==
    LET found == Range(addresses)
    IN [s EXCEPT
          !.authority_to_details =
              IF authority \in DOMAIN @
              THEN [@ EXCEPT ![authority] = @ \cup found]
              ELSE MapInsert(@, authority, found),
          !.peer_details =
              IF peer_id \in DOMAIN @
              THEN [@ EXCEPT ![peer_id].addresses = @ \cup found]
              ELSE MapInsert(@, peer_id,
                      [authority_id |-> authority, addresses |-> found])]

\* the FoundRecord arm that forgets to take the authority out of
\* remaining_authorities
HandleFoundRecordKeepRemaining(s, key, value, rng) ==
    IF key \notin DOMAIN s.records_keys THEN s
    ELSE LET authority == s.records_keys[key]
             decoded == decode_dht_record(value, authority)
         IN IF ~decoded.ok
            THEN [s EXCEPT !.dht_errors = @ + 1]
            ELSE advance_dht_queries(
                    MergeRecord(s, authority, decoded.peer_id, decoded.addresses),
                    rng)

\* the FoundRecord arm that takes the authority out of remaining_authorities
\* before it decodes the record
HandleFoundRecordRemoveFirst(s, key, value, rng) ==
    IF key \notin DOMAIN s.records_keys THEN s
    ELSE LET authority == s.records_keys[key]
             decoded == decode_dht_record(value, authority)
             s0 == [s EXCEPT !.remaining_authorities = @ \ {authority}]
         IN IF ~decoded.ok
            THEN [s0 EXCEPT !.dht_errors = @ + 1]
            ELSE advance_dht_queries(
                    MergeRecord(s0, authority, decoded.peer_id, decoded.addresses),
                    rng)

\* the FoundRecord arm that does not advance the queries
HandleFoundRecordNoAdvance(s, key, value, rng) ==
    IF key \notin DOMAIN s.records_keys THEN s
    ELSE LET authority == s.records_keys[key]
             decoded == decode_dht_record(value, authority)
         IN IF ~decoded.ok
            THEN [s EXCEPT !.dht_errors = @ + 1]
            ELSE LET s1 == MergeRecord(s, authority, decoded.peer_id,
                                       decoded.addresses)
                 IN [s1 EXCEPT !.remaining_authorities = @ \ {authority}]

\* handle_swarm, the FoundRecord arm
HandleFoundRecord(s, key, value, rng) ==
    IF key \notin DOMAIN s.records_keys THEN s
    ELSE LET authority == s.records_keys[key]
             decoded == decode_dht_record(value, authority)
         IN IF ~decoded.ok
            THEN [s EXCEPT !.dht_errors = @ + 1]
            ELSE LET s1 == MergeRecord(s, authority, decoded.peer_id,
                                       decoded.addresses)
                     s2 == [s1 EXCEPT !.remaining_authorities = @ \ {authority}]
                 IN advance_dht_queries(s2, rng)

\* the GetRecord arm that handles only the first report of a query
HandleGetRecordFirstOnly(s, id, result, rng) ==
    LET s1 == [s EXCEPT !.queries = MapRemove(@, id)]
    IN IF result.tag = "FoundRecord" /\ id \in DOMAIN s.queries
       THEN HandleFoundRecord(s1, result.key, result.value, rng)
       ELSE s1

\* handle_swarm, the GetRecord arm
HandleGetRecord(s, id, result, rng) ==
    LET s1 == [s EXCEPT !.queries = MapRemove(@, id)]
    IN IF result.tag = "FoundRecord"
       THEN HandleFoundRecord(s1, result.key, result.value, rng)
       ELSE s1

\* handle_swarm, the GetClosestPeers arm
HandleGetClosestPeers(s, id) ==
    query_peer_info([s EXCEPT !.queries_discovery = @ \ {id}])

\* handle_swarm, the Identified arm
HandleIdentified(s, peer_id, info) ==
    [s EXCEPT !.peer_info = MapInsert(@, peer_id, info)]

\* handle_swarm
handle_swarm(s, event, rng) ==
    CASE event.kind = "GetRecord" ->
            HandleGetRecord(s, event.id, event.result, rng)
      [] event.kind = "GetClosestPeers" ->
            HandleGetClosestPeers(s, event.id)
      [] event.kind = "Identified" ->
            HandleIdentified(s, event.peer_id, event.info)
      [] OTHER -> s

----------------------------------------------------------------------------
(* What the network can deliver *)

\* the libp2p key of the node that runs authority a
PeerKeyOf(a) == 1 + (a % 2)

\* a record signed by authority signer and by the peer key peer_key
SignedRecord(signer, peer_key, addresses) ==
    LET record == AuthorityRecord(addresses)
    IN SignedAuthorityRecord(record, 64, Sig(signer, record),
          Some(PeerSignature(TRUE, peer_key, Sig(peer_key, record))))

\* the values found under the key of authority a
NetworkValues(a) ==
    LET k == PeerKeyOf(a)
        p == ToPeerId(k)
        q == ToPeerId(3 - k)
    IN { SignedRecord(a, k, <<Addr(1, p)>>),
         SignedRecord(a, k, <<AddrNoPeer(2), Addr(1, p)>>),
         \* not signed by the authority
         SignedRecord(0, k, <<Addr(1, p)>>),
         \* addresses of two peers
         SignedRecord(a, k, <<Addr(1, p), Addr(1, q)>>) }

\* The ids of get-closest-peers queries are interchangeable (the engine only
\* inserts them into and removes them from a set), so of the active queries
\* the model lets the oldest or the newest one finish.
FinishingClosest(swarm) ==
    {id \in swarm.closest :
        \/ \A other \in swarm.closest : id <= other
        \/ \A other \in swarm.closest : id >= other}

AgentVersions == {"node/1.0", "node/2.0"}
Info(agent_version) == [agent_version |-> agent_version]

\* the authority list of a run: n distinct public keys
AuthorityList(n) == [i \in 1..n |-> i]

----------------------------------------------------------------------------
(* The report of discover_authorities (lines 643-683) *)

Line(kind, authority, peer_id, addresses, version) ==
    [kind |-> kind, authority |-> authority, peer_id |-> peer_id,
     addresses |-> addresses, version |-> version]

\* a value printed with {:?}: the text shows the type of the value (a string
\* in quotes, a set in braces) and the value itself
Debug(type, value) == [type |-> type, value |-> value]

\* line 662: the message of the panic that ends the program
Panic == "panic: All must have valid peerIDs"

\* The line printed for one authority.  addr is the address that
\* details.iter().next() yields: any element of the set.  The arguments of the
\* "reached" line are passed in the order of the source: the value printed
\* after addresses= is info.agent_version, the one after version= is details.
ReportLine(s, authority, addr) ==
    IF authority \notin DOMAIN s.authority_to_details
    THEN Line("No dht response", authority, None, None, None)
    ELSE LET details == s.authority_to_details[authority]
         IN IF details = {}
            THEN Line("No addresses found in DHT record", authority,
                      None, None, None)
            ELSE LET peer_id == get_peer_id(addr)
                 IN IF peer_id = None
                    THEN Line(Panic, authority,
                              None, None, None)
                    ELSE IF peer_id[1] \in DOMAIN s.peer_info
                    THEN Line("reached", authority, peer_id,
                              Some(Debug("String",
                                  s.peer_info[peer_id[1]].agent_version)),
                              Some(Debug("HashSet", details)))
                    ELSE Line("Cannot be reached", authority, peer_id,
                              Some(Debug("HashSet", details)), None)

\* details.iter().next() for every resolved authority: a HashSet yields its
\* elements in an arbitrary order, so any address of the set can be the one
Picks(s) ==
    LET resolved == DOMAIN s.authority_to_details
        all == UNION {s.authority_to_details[a] : a \in resolved}
    IN {pick \in [resolved -> all \cup {<<>>}] :
          \A a \in resolved :
              IF s.authority_to_details[a] = {} THEN pick[a] = <<>>
              ELSE pick[a] \in s.authority_to_details[a]}

\* the for loop of lines 645-683: the lines printed, in the order of the
\* authority list.  The loop ends early when get_peer_id(addr).expect(..)
\* panics; the entry of that authority is then the last one and tells so.
ReportLines(s, pick) ==
    LET n == Len(s.authorities)
        line(i) ==
            LET authority == s.authorities[i]
            IN ReportLine(s, authority,
                          IF authority \in DOMAIN pick THEN pick[authority]
                          ELSE <<>>)
        panics == {i \in 1..n : line(i).kind = Panic}
        stop == IF panics = {} THEN n
                ELSE CHOOSE i \in panics : \A j \in panics : i <= j
    IN [i \in 1..stop |-> line(i)]

\* the summary that counts every authority with a record as discovered
ReportSummaryCountsResolved(s, lines) ==
    IF \E i \in 1..Len(lines) : lines[i].kind = Panic
    THEN None
    ELSE Some([reached_peers |->
                   Cardinality({i \in 1..Len(lines) :
                       lines[i].kind \in {"reached", "Cannot be reached"}}),
               authorities |-> Len(s.authorities),
               peers |-> Cardinality(DOMAIN s.peer_info)])

\* lines 643, 666 and 685-691: the two summary lines printed after the loop,
\* "Discovered {reached_peers}/{authorities.len()} authorities" and
\* "Discovered peers {peer_info.len()}".  reached_peers is incremented once
\* for every "reached" line.  A panic in the loop ends the program before
\* the summary.
ReportSummary(s, lines) ==
    IF \E i \in 1..Len(lines) : lines[i].kind = Panic
    THEN None
    ELSE Some([reached_peers |->
                   Cardinality({i \in 1..Len(lines) :
                       lines[i].kind = "reached"}),
               authorities |-> Len(s.authorities),
               peers |-> Cardinality(DOMAIN s.peer_info)])

----------------------------------------------------------------------------
(* The notifications connection handler (notifications/handler.rs) *)

\* the two hardcoded protocols: block-announces (0) and transactions (1)
Indexes == {0, 1}

\* ProtocolDetails.handshake: what this node sends as its handshake
ProtoHandshake(index) ==
    IF index = 0 THEN "block-announces-handshake" ELSE "node-role"

(* enum State *)
Closed(pending_opening) ==
    [tag |-> "Closed", pending_opening |-> pending_opening]
OpenDesiredByRemote(inbound_substream, pending_opening) ==
    [tag |-> "OpenDesiredByRemote", inbound_substream |-> inbound_substream,
     pending_opening |-> pending_opening]
Opening(inbound_substream, inbound) ==
    [tag |-> "Opening", inbound_substream |-> inbound_substream,
     inbound |-> inbound]
Open(recv, inbound_substream, outbound_substream) ==
    [tag |-> "Open", recv |-> recv, inbound_substream |-> inbound_substream,
     outbound_substream |-> outbound_substream]

\* a negotiated inbound substream and the handshake set on it, if any
InboundSubstream(id) == [id |-> id, handshake |-> None]
\* HandshakeInboundSubstream::set_handshake
SetHandshake(substream, bytes) == [substream EXCEPT !.handshake = Some(bytes)]
\* a negotiated outbound substream and the messages handed to it so far
OutboundSubstream(id) == [id |-> id, sent |-> <<>>]

(* enum NotificationsHandlerToBehavior, and the substream request *)
OutboundSubstreamRequest(index) ==
    [kind |-> "OutboundSubstreamRequest", index |-> index]
EvOpenDesiredByRemote(index) ==
    [kind |-> "OpenDesiredByRemote", index |-> index]
EvHandshakeCompleted(index, handshake, is_inbound, sender) ==
    [kind |-> "HandshakeCompleted", index |-> index, handshake |-> handshake,
     is_inbound |-> is_inbound, sender |-> sender]
EvHandshakeError(index) == [kind |-> "HandshakeError", index |-> index]
EvClose(index) == [kind |-> "Close", index |-> index]
EvCloseDesired(index) == [kind |-> "CloseDesired", index |-> index]
EvNotification(index, bytes) ==
    [kind |-> "Notification", index |-> index, bytes |-> bytes]

\* NotificationsHandler::new.  channels counts the mpsc channels created.
NewHandler ==
    [protocols |-> [index \in Indexes |-> Closed(FALSE)],
     pending_events |-> <<>>,
     channels |-> 0]

PushBack(h, ev) == [h EXCEPT !.pending_events = Append(@, ev)]
SetState(h, index, state) == [h EXCEPT !.protocols[index] = state]

\* FullyNegotiatedInbound that takes the newest inbound substream of an
\* Opening or Open protocol
OnFullyNegotiatedInboundReplace(h, index, substream) ==
    LET state == h.protocols[index]
    IN CASE state.tag = "Closed" ->
              SetState(PushBack(h, EvOpenDesiredByRemote(index)), index,
                       OpenDesiredByRemote(substream, state.pending_opening))
         [] state.tag = "OpenDesiredByRemote" -> h
         [] state.tag \in {"Opening", "Open"} ->
              SetState(h, index,
                  [state EXCEPT !.inbound_substream =
                      Some(SetHandshake(substream, ProtoHandshake(index)))])

\* FullyNegotiatedInbound that forgets the pending outbound request of a
\* Closed protocol
OnFullyNegotiatedInboundResetPending(h, index, substream) ==
    LET state == h.protocols[index]
    IN CASE state.tag = "Closed" ->
              SetState(PushBack(h, EvOpenDesiredByRemote(index)), index,
                       OpenDesiredByRemote(substream, FALSE))
         [] state.tag = "OpenDesiredByRemote" -> h
         [] state.tag \in {"Opening", "Open"} ->
              IF state.inbound_substream # None THEN h
              ELSE SetState(h, index,
                      [state EXCEPT !.inbound_substream =
                          Some(SetHandshake(substream, ProtoHandshake(index)))])

\* on_connection_event, FullyNegotiatedInbound
OnFullyNegotiatedInbound(h, index, substream) ==
    LET state == h.protocols[index]
    IN CASE state.tag = "Closed" ->
              SetState(PushBack(h, EvOpenDesiredByRemote(index)), index,
                       OpenDesiredByRemote(substream, state.pending_opening))
         [] state.tag = "OpenDesiredByRemote" -> h
         [] state.tag \in {"Opening", "Open"} ->
              IF state.inbound_substream # None THEN h
              ELSE SetState(h, index,
                      [state EXCEPT !.inbound_substream =
                          Some(SetHandshake(substream, ProtoHandshake(index)))])

\* FullyNegotiatedOutbound that opens the protocol without telling the
\* behaviour
OnFullyNegotiatedOutboundSilent(h, index, substream, handshake) ==
    LET state == h.protocols[index]
    IN CASE state.tag \in {"Closed", "OpenDesiredByRemote"} ->
              SetState(h, index, [state EXCEPT !.pending_opening = FALSE])
         [] state.tag = "Opening" ->
              SetState([h EXCEPT !.channels = @ + 1], index,
                       Open([id |-> h.channels + 1, queue |-> <<>>],
                            state.inbound_substream, Some(substream)))
         [] state.tag = "Open" -> h

\* FullyNegotiatedOutbound that reports every opened protocol as opened by
\* the local side
OnFullyNegotiatedOutboundNotInbound(h, index, substream, handshake) ==
    LET state == h.protocols[index]
    IN CASE state.tag \in {"Closed", "OpenDesiredByRemote"} ->
              SetState(h, index, [state EXCEPT !.pending_opening = FALSE])
         [] state.tag = "Opening" ->
              LET channel == h.channels + 1
                  h1 == [h EXCEPT !.channels = channel]
                  h2 == SetState(h1, index,
                           Open([id |-> channel, queue |-> <<>>],
                                state.inbound_substream, Some(substream)))
              IN PushBack(h2, EvHandshakeCompleted(index, handshake,
                                                   FALSE, channel))
         [] state.tag = "Open" -> h

\* FullyNegotiatedOutbound that leaves pending_opening as it is
OnFullyNegotiatedOutboundKeepPending(h, index, substream, handshake) ==
    LET state == h.protocols[index]
    IN IF state.tag = "Opening"
       THEN LET channel == h.channels + 1
                h1 == [h EXCEPT !.channels = channel]
                h2 == SetState(h1, index,
                         Open([id |-> channel, queue |-> <<>>],
                              state.inbound_substream, Some(substream)))
            IN PushBack(h2, EvHandshakeCompleted(index, handshake,
                                                 state.inbound, channel))
       ELSE h

\* on_connection_event, FullyNegotiatedOutbound
OnFullyNegotiatedOutbound(h, index, substream, handshake) ==
    LET state == h.protocols[index]
    IN CASE state.tag \in {"Closed", "OpenDesiredByRemote"} ->
              SetState(h, index, [state EXCEPT !.pending_opening = FALSE])
         [] state.tag = "Opening" ->
              LET channel == h.channels + 1
                  h1 == [h EXCEPT !.channels = channel]
                  h2 == SetState(h1, index,
                           Open([id |-> channel, queue |-> <<>>],
                                state.inbound_substream, Some(substream)))
              IN PushBack(h2, EvHandshakeCompleted(index, handshake,
                                                   state.inbound, channel))
         [] state.tag = "Open" -> h

\* DialUpgradeError that falls back to the inbound substream of an Opening
\* protocol, if it holds one
OnDialUpgradeErrorKeepInbound(h, index) ==
    LET state == h.protocols[index]
    IN CASE state.tag \in {"Closed", "OpenDesiredByRemote"} ->
              SetState(h, index, [state EXCEPT !.pending_opening = FALSE])
         [] state.tag = "Opening" ->
              PushBack(SetState(h, index,
                          IF state.inbound_substream = None THEN Closed(FALSE)
                          ELSE OpenDesiredByRemote(state.inbound_substream[1],
                                                   FALSE)),
                       EvHandshakeError(index))
         [] state.tag = "Open" -> h

\* DialUpgradeError that leaves pending_opening as it is
OnDialUpgradeErrorKeepPending(h, index) ==
    LET state == h.protocols[index]
    IN IF state.tag = "Opening"
       THEN PushBack(SetState(h, index, Closed(FALSE)), EvHandshakeError(index))
       ELSE h

\* on_connection_event, DialUpgradeError
OnDialUpgradeError(h, index) ==
    LET state == h.protocols[index]
    IN CASE state.tag \in {"Closed", "OpenDesiredByRemote"} ->
              SetState(h, index, [state EXCEPT !.pending_opening = FALSE])
         [] state.tag = "Opening" ->
              PushBack(SetState(h, index, Closed(FALSE)), EvHandshakeError(index))
         [] state.tag = "Open" -> h

\* Open that requests an outbound substream whatever pending_opening says
OnBehaviourOpenAlwaysRequest(h, index) ==
    LET state == h.protocols[index]
        h1 == PushBack(h, OutboundSubstreamRequest(index))
    IN CASE state.tag = "Closed" -> SetState(h1, index, Opening(None, FALSE))
         [] state.tag = "OpenDesiredByRemote" ->
              SetState(h1, index,
                  Opening(Some(SetHandshake(state.inbound_substream,
                                            ProtoHandshake(index))), TRUE))
         [] state.tag \in {"Opening", "Open"} -> h

\* Open that leaves the placeholder of mem::replace in place of the state
\* built from the stored inbound substream
OnBehaviourOpenPlaceholder(h, index) ==
    LET state == h.protocols[index]
    IN CASE state.tag = "Closed" ->
              LET h1 == IF ~state.pending_opening
                        THEN PushBack(h, OutboundSubstreamRequest(index))
                        ELSE h
              IN SetState(h1, index, Opening(None, FALSE))
         [] state.tag = "OpenDesiredByRemote" ->
              LET h1 == IF ~state.pending_opening
                        THEN PushBack(h, OutboundSubstreamRequest(index))
                        ELSE h
              IN SetState(h1, index, Opening(None, FALSE))
         [] state.tag \in {"Opening", "Open"} -> h

\* on_behaviour_event, Open
OnBehaviourOpen(h, index) ==
    LET state == h.protocols[index]
    IN CASE state.tag = "Closed" ->
              LET h1 == IF ~state.pending_opening
                        THEN PushBack(h, OutboundSubstreamRequest(index))
                        ELSE h
              IN SetState(h1, index, Opening(None, FALSE))
         [] state.tag = "OpenDesiredByRemote" ->
              LET h1 == IF ~state.pending_opening
                        THEN PushBack(h, OutboundSubstreamRequest(index))
                        ELSE h
                  inbound_substream ==
                      SetHandshake(state.inbound_substream, ProtoHandshake(index))
              IN SetState(h1, index, Opening(Some(inbound_substream), TRUE))
         [] state.tag \in {"Opening", "Open"} -> h

\* Close that forgets pending_opening when it closes OpenDesiredByRemote
OnBehaviourCloseResetPending(h, index) ==
    LET state == h.protocols[index]
        h1 == CASE state.tag = "Closed" -> h
                [] state.tag = "OpenDesiredByRemote" ->
                     SetState(h, index, Closed(FALSE))
                [] state.tag = "Opening" ->
                     PushBack(SetState(h, index, Closed(TRUE)),
                              EvHandshakeError(index))
                [] state.tag = "Open" -> SetState(h, index, Closed(FALSE))
    IN PushBack(h1, EvClose(index))

\* Close that reports a handshake error whatever the state of the protocol
OnBehaviourCloseAlwaysError(h, index) ==
    LET state == h.protocols[index]
        pending_opening ==
            CASE state.tag \in {"Closed", "OpenDesiredByRemote"} ->
                    state.pending_opening
              [] state.tag = "Opening" -> TRUE
              [] state.tag = "Open" -> FALSE
        h1 == PushBack(SetState(h, index, Closed(pending_opening)),
                       EvHandshakeError(index))
    IN PushBack(h1, EvClose(index))

\* on_behaviour_event, Close
OnBehaviourClose(h, index) ==
    LET state == h.protocols[index]
        h1 == CASE state.tag = "Closed" -> h
                [] state.tag = "OpenDesiredByRemote" ->
                     SetState(h, index, Closed(state.pending_opening))
                [] state.tag = "Opening" ->
                     PushBack(SetState(h, index, Closed(TRUE)),
                              EvHandshakeError(index))
                [] state.tag = "Open" -> SetState(h, index, Closed(FALSE))
    IN PushBack(h1, EvClose(index))

\* keep-alive that asks an Open protocol for a substream that is still there
\* and counts a Closed protocol whose outbound result is pending
connection_keep_alive_live(h) ==
    IF \E index \in Indexes :
          LET state == h.protocols[index]
          IN CASE state.tag = "Closed" -> state.pending_opening
               [] state.tag = "Open" ->
                    \/ state.inbound_substream # None
                    \/ state.outbound_substream # None
               [] OTHER -> TRUE
    THEN "Yes" ELSE "No"

\* connection_keep_alive
connection_keep_alive(h) ==
    IF \E index \in Indexes : h.protocols[index].tag # "Closed"
    THEN "Yes" ELSE "No"

----------------------------------------------------------------------------
(* poll.  io holds what the channels and substreams answer during this call:
   io.ready[i]   how many times in a row the outbound substream of protocol i
                 reports ready before it reports pending;
   io.flush[i]   the result of flushing it: "Ok" (or pending), or "Err";
   io.inbound[i] what the inbound substream yields: "Pending", "Item" (a
                 notification; never for a handshake in progress) or "Err"
                 (an error or the end of the stream);
   io.bytes      the bytes of a notification. *)

PollPending == [kind |-> "Pending"]

\* the send loop without the poll_ready step: every message of the channel
\* goes to the outbound substream
RECURSIVE SendLoopNoReady(_, _)
SendLoopNoReady(state, ready) ==
    IF state.recv.queue = <<>> THEN state
    ELSE LET message == Head(state.recv.queue)
             out == state.outbound_substream[1]
         IN SendLoopNoReady(
                [state EXCEPT !.recv.queue = Tail(@),
                              !.outbound_substream =
                                  Some([out EXCEPT !.sent = Append(@, message)])],
                ready)

\* lines 623-658: the loop that moves user messages to the outbound substream
RECURSIVE SendLoop(_, _)
SendLoop(state, ready) ==
    IF state.recv.queue = <<>> THEN state          \* poll_peek is not Ready(Some)
    ELSE IF ready = 0 THEN state                   \* poll_ready is Pending
    ELSE LET message == Head(state.recv.queue)
             out == state.outbound_substream[1]
             state1 == [state EXCEPT
                          !.recv.queue = Tail(@),
                          !.outbound_substream =
                              Some([out EXCEPT !.sent = Append(@, message)])]
         IN SendLoop(state1, ready - 1)

\* lines 616-660
PollSend(h, io) ==
    [h EXCEPT !.protocols =
        [index \in Indexes |->
            IF /\ h.protocols[index].tag = "Open"
               /\ h.protocols[index].outbound_substream # None
            THEN SendLoop(h.protocols[index], io.ready[index])
            ELSE h.protocols[index]]]

\* the inbound loop that forgets pending_opening when the handshake of a protocol
\* in OpenDesiredByRemote fails
RECURSIVE PollInboundResetPending(_, _, _)
PollInboundResetPending(h, io, index) ==
    IF index \notin Indexes THEN [h |-> h, ret |-> PollPending]
    ELSE LET state == h.protocols[index]
             answer == io.inbound[index]
         IN CASE state.tag = "Open" /\ state.inbound_substream # None ->
                    IF answer = "Item"
                    THEN [h |-> h, ret |-> EvNotification(index, io.bytes)]
                    ELSE IF answer = "Err"
                    THEN PollInboundResetPending(
                            SetState(h, index,
                                     [state EXCEPT !.inbound_substream = None]),
                            io, index + 1)
                    ELSE PollInboundResetPending(h, io, index + 1)
              [] state.tag = "OpenDesiredByRemote" ->
                    IF answer = "Err"
                    THEN [h |-> SetState(h, index, Closed(FALSE)),
                          ret |-> EvCloseDesired(index)]
                    ELSE PollInboundResetPending(h, io, index + 1)
              [] state.tag = "Opening" /\ state.inbound_substream # None ->
                    IF answer = "Err"
                    THEN PollInboundResetPending(
                            SetState(h, index,
                                     [state EXCEPT !.inbound_substream = None]),
                            io, index + 1)
                    ELSE PollInboundResetPending(h, io, index + 1)
              [] OTHER -> PollInboundResetPending(h, io, index + 1)

\* lines 683-728, from protocol index on
RECURSIVE PollInbound(_, _, _)
PollInbound(h, io, index) ==
    IF index \notin Indexes THEN [h |-> h, ret |-> PollPending]
    ELSE LET state == h.protocols[index]
             answer == io.inbound[index]
         IN CASE state.tag = "Open" /\ state.inbound_substream # None ->
                    IF answer = "Item"
                    THEN [h |-> h, ret |-> EvNotification(index, io.bytes)]
                    ELSE IF answer = "Err"
                    THEN PollInbound(
                            SetState(h, index,
                                     [state EXCEPT !.inbound_substream = None]),
                            io, index + 1)
                    ELSE PollInbound(h, io, index + 1)
              [] state.tag = "OpenDesiredByRemote" ->
                    IF answer = "Err"
                    THEN [h |-> SetState(h, index, Closed(state.pending_opening)),
                          ret |-> EvCloseDesired(index)]
                    ELSE PollInbound(h, io, index + 1)
              [] state.tag = "Opening" /\ state.inbound_substream # None ->
                    IF answer = "Err"
                    THEN PollInbound(
                            SetState(h, index,
                                     [state EXCEPT !.inbound_substream = None]),
                            io, index + 1)
                    ELSE PollInbound(h, io, index + 1)
              [] OTHER -> PollInbound(h, io, index + 1)

\* the flush loop that reports a failed flush and keeps the substream
RECURSIVE PollFlushKeepSubstream(_, _, _)
PollFlushKeepSubstream(h, io, index) ==
    IF index \notin Indexes THEN PollInbound(h, io, 0)
    ELSE LET state == h.protocols[index]
         IN IF /\ state.tag = "Open"
               /\ state.outbound_substream # None
               /\ io.flush[index] = "Err"
            THEN [h |-> h, ret |-> EvCloseDesired(index)]
            ELSE PollFlushKeepSubstream(h, io, index + 1)

\* lines 663-680, from protocol index on
RECURSIVE PollFlush(_, _, _)
PollFlush(h, io, index) ==
    IF index \notin Indexes THEN PollInbound(h, io, 0)
    ELSE LET state == h.protocols[index]
         IN IF /\ state.tag = "Open"
               /\ state.outbound_substream # None
               /\ io.flush[index] = "Err"
            THEN [h |-> SetState(h, index,
                                 [state EXCEPT !.outbound_substream = None]),
                  ret |-> EvCloseDesired(index)]
            ELSE PollFlush(h, io, index + 1)

\* poll that looks at the inbound substreams before it flushes
pollInboundFirst(h, io) ==
    IF h.pending_events # <<>>
    THEN [h |-> [h EXCEPT !.pending_events = Tail(@)],
          ret |-> Head(h.pending_events)]
    ELSE LET r == PollInbound(PollSend(h, io), io, 0)
         IN IF r.ret # PollPending THEN r ELSE PollFlush(r.h, io, 0)

\* poll
poll(h, io) ==
    IF h.pending_events # <<>>
    THEN [h |-> [h EXCEPT !.pending_events = Tail(@)],
          ret |-> Head(h.pending_events)]
    ELSE PollFlush(PollSend(h, io), io, 0)

----------------------------------------------------------------------------
(* The connection of a handler: the outbound substream requests the swarm
   has taken from poll and not answered yet, and counters that number the
   negotiated substreams and the messages of the user. *)

NewConn ==
    [negotiating |-> [index \in Indexes |-> 0], substreams |-> 0, messages |-> 0]

----------------------------------------------------------------------------
(* discover() and its select loop *)

Begin(s) == [s EXCEPT !.called = {}, !.dropped = {}]

\* What a step did: the arm of the select that ran; for a GetRecord event the
\* query id, the kind of result, the key of the record, whether the id was in
\* queries, whether it is the first report of that query, and the addresses
\* of the record when it decodes for the authority of its key.
Step(action, id, tag, key, in_flight, first, valid, addresses) ==
    [action |-> action, id |-> id, tag |-> tag, key |-> key,
     in_flight |-> in_flight, first |-> first, valid |-> valid,
     addresses |-> addresses]

NoStep(action) == Step(action, 0, "", 0, FALSE, FALSE, FALSE, {})

\* lines 477-481: advance_dht_queries, then the first tick of both intervals
DiscoverStart(s, rng) ==
    [advance_dht_queries(s, rng) EXCEPT !.interval_resubmit = @ + 1,
                                        !.interval_exit = @ + 1]

\* lines 489-491: the interval_resubmit arm of the select
DiscoverResubmitTick(s, rng) ==
    [resubmit_remaining_dht_queries(s, rng) EXCEPT !.interval_resubmit = @ + 1]

\* the swarm arm that returns once every authority is resolved
DiscoverSwarmEventShortCircuit(s, event, rng) ==
    LET s1 == handle_swarm(s, event, rng)
    IN [s1 EXCEPT !.returned = (s1.remaining_authorities = {})]

\* lines 485-487: the swarm arm of the select
DiscoverSwarmEvent(s, event, rng) == handle_swarm(s, event, rng)

\* lines 493-501: the interval_exit arm of the select; discover returns
DiscoverExitTick(s) == [s EXCEPT !.interval_exit = @ + 1, !.returned = TRUE]

\* where discover() is after a turn of its loop
Position(s) == IF s.returned THEN "done" ELSE "loop"

\* The outcomes of the shuffle that a step can tell apart, given the state
\* probe that the step leaves when the shuffle keeps the order (rng = {}):
\* every choice of the authorities put first when the step reached
\* resubmit_remaining_dht_queries, which is the only reader of rng, and the
\* single outcome probe otherwise.
ShuffleOutcomes(probe) ==
    IF "resubmit_remaining_dht_queries" \in probe.called
    THEN Rngs(probe.remaining_authorities)
    ELSE {{}}

InitEngine(counts, steps) ==
    /\ \E n \in counts : engine = New(AuthorityList(n))
    /\ pc = "new"
    /\ budget = steps
    /\ last = NoStep("new")
    /\ handler = NewHandler
    /\ conn = NewConn

\* runs over short authority lists
Init == InitEngine(0..MaxList, MaxSteps)

\* runs over a list longer than MAX_QUERIES
CapInit == InitEngine({MaxAuth}, MaxCapSteps)

Start ==
    /\ pc = "new"
    /\ LET Handler(rng) == DiscoverStart(Begin(engine), rng)
       IN LET probe == Handler({})
          IN engine' \in {IF rng = {} THEN probe ELSE Handler(rng) :
                             rng \in ShuffleOutcomes(probe)}
    /\ pc' = Position(engine')
    /\ last' = NoStep("Start")
    /\ UNCHANGED <<budget, handler, conn>>

\* A get-record query reports a record found at some peer; the query stays
\* active.  The record carries the key that was asked for, or a key that no
\* query of the engine asked for.
GetRecordFound ==
    /\ pc = "loop"
    /\ budget > 0
    /\ \E id \in DOMAIN engine.swarm.get_record :
       \E foreign \in BOOLEAN :
       \E value \in NetworkValues(engine.swarm.get_record[id].key
                                      - HashAuthorityId(0)) :
          LET key == IF foreign THEN ForeignKey
                     ELSE engine.swarm.get_record[id].key
              authority == key - HashAuthorityId(0)
              decoded == decode_dht_record(value, authority)
              valid == ~foreign /\ decoded.ok
              s == [engine EXCEPT !.swarm.get_record[id].reported = TRUE]
              Handler(rng) ==
                  DiscoverSwarmEvent(Begin(s),
                      GetRecordEvent(id, FoundRecord(key, value)), rng)
          IN /\ LET probe == Handler({})
                IN engine' \in {IF rng = {} THEN probe ELSE Handler(rng) :
                                   rng \in ShuffleOutcomes(probe)}
             /\ last' = Step("GetRecord", id, "FoundRecord", key,
                             id \in DOMAIN engine.queries,
                             ~engine.swarm.get_record[id].reported, valid,
                             IF valid THEN Range(decoded.addresses) ELSE {})
    /\ budget' = budget - 1
    /\ pc' = Position(engine')
    /\ UNCHANGED <<handler, conn>>

\* a get-record query ends: without a further record, or with an error
GetRecordFinished ==
    /\ pc = "loop"
    /\ budget > 0
    /\ \E id \in DOMAIN engine.swarm.get_record :
       \E result \in {FinishedWithNoAdditionalRecord, GetRecordError} :
          LET s == [engine EXCEPT !.swarm.get_record = MapRemove(@, id)]
              Handler(rng) ==
                  DiscoverSwarmEvent(Begin(s), GetRecordEvent(id, result), rng)
          IN /\ LET probe == Handler({})
                IN engine' \in {IF rng = {} THEN probe ELSE Handler(rng) :
                                   rng \in ShuffleOutcomes(probe)}
             /\ last' = Step("GetRecord", id, result.tag, 0,
                             id \in DOMAIN engine.queries,
                             ~engine.swarm.get_record[id].reported, FALSE, {})
    /\ budget' = budget - 1
    /\ pc' = Position(engine')
    /\ UNCHANGED <<handler, conn>>

\* a get-closest-peers query ends
GetClosestPeersResult ==
    /\ pc = "loop"
    /\ budget > 0
    /\ \E id \in FinishingClosest(engine.swarm) :
          LET s == [engine EXCEPT !.swarm.closest = @ \ {id}]
              Handler(rng) ==
                  DiscoverSwarmEvent(Begin(s), GetClosestPeersEvent(id), rng)
          IN /\ LET probe == Handler({})
                IN engine' \in {IF rng = {} THEN probe ELSE Handler(rng) :
                                   rng \in ShuffleOutcomes(probe)}
             /\ last' = Step("GetClosestPeers", id, "", 0,
                             id \in engine.queries_discovery, TRUE, FALSE, {})
    /\ budget' = budget - 1
    /\ pc' = Position(engine')
    /\ UNCHANGED <<handler, conn>>

\* the identify protocol reports a peer
Identified ==
    /\ pc = "loop"
    /\ budget > 0
    /\ \E peer_id \in PeerIds : \E v \in AgentVersions :
          LET Handler(rng) ==
                  DiscoverSwarmEvent(Begin(engine),
                      IdentifiedEvent(peer_id, Info(v)), rng)
          IN /\ LET probe == Handler({})
                IN engine' \in {IF rng = {} THEN probe ELSE Handler(rng) :
                                   rng \in ShuffleOutcomes(probe)}
             /\ last' = Step("Identified", peer_id, "", 0,
                             FALSE, FALSE, FALSE, {})
    /\ budget' = budget - 1
    /\ pc' = Position(engine')
    /\ UNCHANGED <<handler, conn>>

\* any other swarm event
Other ==
    /\ pc = "loop"
    /\ budget > 0
    /\ LET Handler(rng) == DiscoverSwarmEvent(Begin(engine), OtherEvent, rng)
       IN LET probe == Handler({})
          IN engine' \in {IF rng = {} THEN probe ELSE Handler(rng) :
                             rng \in ShuffleOutcomes(probe)}
    /\ last' = NoStep("Other")
    /\ budget' = budget - 1
    /\ pc' = Position(engine')
    /\ UNCHANGED <<handler, conn>>

\* interval_resubmit ticks
ResubmitTick ==
    /\ pc = "loop"
    /\ budget > 0
    /\ LET Handler(rng) == DiscoverResubmitTick(Begin(engine), rng)
       IN LET probe == Handler({})
          IN engine' \in {IF rng = {} THEN probe ELSE Handler(rng) :
                             rng \in ShuffleOutcomes(probe)}
    /\ last' = NoStep("ResubmitTick")
    /\ budget' = budget - 1
    /\ pc' = Position(engine')
    /\ UNCHANGED <<handler, conn>>

\* interval_exit ticks: discover returns
ExitTick ==
    /\ pc = "loop"
    /\ engine' = DiscoverExitTick(Begin(engine))
    /\ pc' = Position(engine')
    /\ last' = NoStep("ExitTick")
    /\ UNCHANGED <<budget, handler, conn>>

\* the step of the report: the lines it printed and the summary after them
ReportStep(lines, summary) ==
    [action |-> "Report", id |-> 0, tag |-> "", key |-> 0,
     in_flight |-> FALSE, first |-> FALSE, valid |-> FALSE, addresses |-> {},
     lines |-> lines, summary |-> summary]

\* discover() has returned: discover_authorities prints the report
Report ==
    /\ pc = "done"
    /\ \E pick \in Picks(engine) :
          LET lines == ReportLines(engine, pick)
          IN last' = ReportStep(lines, ReportSummary(engine, lines))
    /\ pc' = "reported"
    /\ UNCHANGED <<engine, budget, handler, conn>>

Next ==
    \/ Start
    \/ GetRecordFound
    \/ GetRecordFinished
    \/ GetClosestPeersResult
    \/ Identified
    \/ Other
    \/ ResubmitTick
    \/ ExitTick
    \/ Report

Spec == Init /\ [][Next]_vars

CapSpec == CapInit /\ [][Next]_vars

\* discover() is called, and the select loop takes the interval_exit arm once
\* its tick is due
FairSpec == Spec /\ WF_vars(Start) /\ WF_vars(ExitTick)

\* the record that authority a publishes: signed by it and by its node, with
\* one address of that node
PublishedRecord(a) ==
    SignedRecord(a, PeerKeyOf(a), <<Addr(1, ToPeerId(PeerKeyOf(a)))>>)

\* the values a query for authority a delivers when it delivers a valid record
ValidValues(a) ==
    {value \in {PublishedRecord(a)} : decode_dht_record(value, a).ok}

\* runs over a list longer than MAX_QUERIES in which the queries deliver
DeliverInit == InitEngine({MaxAuth}, MaxNoise)

\* a get-record query of an authority that is not resolved yet reports a valid
\* record of that authority; the query stays active
GetRecordDelivered ==
    /\ pc = "loop"
    /\ \E id \in DOMAIN engine.swarm.get_record :
          LET key == engine.swarm.get_record[id].key
              authority == key - HashAuthorityId(0)
          IN /\ authority \in engine.remaining_authorities
             /\ \E value \in ValidValues(authority) :
                   LET decoded == decode_dht_record(value, authority)
                       s == [engine EXCEPT
                                !.swarm.get_record[id].reported = TRUE]
                       Handler(rng) ==
                           DiscoverSwarmEvent(Begin(s),
                               GetRecordEvent(id, FoundRecord(key, value)), rng)
                   IN /\ LET probe == Handler({})
                         IN engine' \in
                               {IF rng = {} THEN probe ELSE Handler(rng) :
                                   rng \in ShuffleOutcomes(probe)}
                      /\ last' = Step("GetRecord", id, "FoundRecord", key,
                                      id \in DOMAIN engine.queries,
                                      ~engine.swarm.get_record[id].reported,
                                      TRUE, Range(decoded.addresses))
    /\ pc' = Position(engine')
    /\ UNCHANGED <<budget, handler, conn>>

\* the values found under the key of authority a that do not decode for it
InvalidValues(a) ==
    {value \in NetworkValues(a) : ~decode_dht_record(value, a).ok}

\* a get-record query reports a record that does not decode; the query stays
\* active
GetRecordRejected ==
    /\ pc = "loop"
    /\ budget > 0
    /\ \E id \in DOMAIN engine.swarm.get_record :
          LET key == engine.swarm.get_record[id].key
              authority == key - HashAuthorityId(0)
          IN \E value \in InvalidValues(authority) :
                LET s == [engine EXCEPT !.swarm.get_record[id].reported = TRUE]
                    Handler(rng) ==
                        DiscoverSwarmEvent(Begin(s),
                            GetRecordEvent(id, FoundRecord(key, value)), rng)
                IN /\ LET probe == Handler({})
                      IN engine' \in
                            {IF rng = {} THEN probe ELSE Handler(rng) :
                                rng \in ShuffleOutcomes(probe)}
                   /\ last' = Step("GetRecord", id, "FoundRecord", key,
                                   id \in DOMAIN engine.queries,
                                   ~engine.swarm.get_record[id].reported,
                                   FALSE, {})
    /\ budget' = budget - 1
    /\ pc' = Position(engine')
    /\ UNCHANGED <<handler, conn>>

DeliverNext ==
    \/ Start
    \/ GetRecordDelivered
    \/ GetRecordRejected

\* discover() is at its start
StartEnabled == pc = "new"

\* a query for an authority that is not resolved yet is active
DeliverEnabled ==
    /\ pc = "loop"
    /\ \E id \in DOMAIN engine.swarm.get_record :
          engine.swarm.get_record[id].key - HashAuthorityId(0)
              \in engine.remaining_authorities

\* discover() is called and its select loop runs before the first tick of
\* interval_resubmit and of interval_exit in the loop; every query for an
\* authority that is not resolved yet delivers a valid record, and the select
\* takes the swarm arm for it.  Up to MaxNoise records that do not decode are
\* found too.  The two conditions are weak fairness of Start and of
\* GetRecordDelivered, with the enabling conditions written out.
DeliverSpec ==
    /\ DeliverInit /\ [][DeliverNext]_vars
    /\ ([]<>(~StartEnabled) \/ []<><<Start>>_vars)
    /\ ([]<>(~DeliverEnabled) \/ []<><<GetRecordDelivered>>_vars)

----------------------------------------------------------------------------
(* A connection and its handler *)

\* the answers of a poll that reads nothing
NoIO ==
    [ready |-> [i \in Indexes |-> 0], flush |-> [i \in Indexes |-> "Ok"],
     inbound |-> [i \in Indexes |-> "Pending"], bytes |-> "notification"]

\* What a step of the connection did: the call, its protocol index, what a
\* poll returned and what the channels and substreams answered in it.
HStep(action, index, ret) ==
    [action |-> action, index |-> index, ret |-> ret, io |-> NoIO]

PollStep(io, ret) == [HStep("poll", 0, ret) EXCEPT !.io = io]

RemoteHandshake == "remote-handshake"

\* The answers a poll of handler h can get.  An answer that poll does not
\* read in the state of its protocol is fixed: every answer when poll returns
\* a pending event, the readiness and the flush of an outbound substream that
\* is absent, the readiness of one whose channel is empty, the stream of an
\* inbound substream that is absent.
IOs(h) ==
    LET state(i) == h.protocols[i]
        sends(i) == state(i).tag = "Open" /\ state(i).outbound_substream # None
        reads(i) ==
            \/ state(i).tag = "OpenDesiredByRemote"
            \/ state(i).tag \in {"Opening", "Open"}
                    /\ state(i).inbound_substream # None
        Ready(i) == IF sends(i) /\ state(i).recv.queue # <<>>
                    THEN 0..MaxReady ELSE {0}
        Flush(i) == IF sends(i) THEN {"Ok", "Err"} ELSE {"Ok"}
        Inbound(i) == IF ~reads(i) THEN {"Pending"}
                      ELSE IF state(i).tag = "Open"
                      THEN {"Pending", "Item", "Err"}
                      ELSE {"Pending", "Err"}
        Pair(a, b) == [i \in Indexes |-> IF i = 0 THEN a ELSE b]
    IN IF h.pending_events # <<>> THEN {NoIO}
       ELSE {[ready |-> Pair(r0, r1), flush |-> Pair(f0, f1),
              inbound |-> Pair(n0, n1), bytes |-> "notification"] :
                 r0 \in Ready(0), r1 \in Ready(1),
                 f0 \in Flush(0), f1 \in Flush(1),
                 n0 \in Inbound(0), n1 \in Inbound(1)}

HandlerInit ==
    /\ engine = New(<<>>)
    /\ pc = "handler"
    /\ budget = MaxHandlerSteps
    /\ last = HStep("new", 0, PollPending)
    /\ handler = NewHandler
    /\ conn = NewConn

\* the behaviour asks to open a protocol
BehaviourOpen ==
    /\ budget > 0
    /\ \E index \in Indexes :
          /\ handler' = OnBehaviourOpen(handler, index)
          /\ last' = HStep("Open", index, PollPending)
    /\ budget' = budget - 1
    /\ UNCHANGED <<engine, pc, conn>>

\* the behaviour asks to close a protocol
BehaviourClose ==
    /\ budget > 0
    /\ \E index \in Indexes :
          /\ handler' = OnBehaviourClose(handler, index)
          /\ last' = HStep("Close", index, PollPending)
    /\ budget' = budget - 1
    /\ UNCHANGED <<engine, pc, conn>>

\* the remote opened a substream of a protocol
InboundNegotiated ==
    /\ budget > 0
    /\ \E index \in Indexes :
          /\ handler' = OnFullyNegotiatedInbound(handler, index,
                            InboundSubstream(conn.substreams + 1))
          /\ last' = HStep("FullyNegotiatedInbound", index, PollPending)
    /\ conn' = [conn EXCEPT !.substreams = @ + 1]
    /\ budget' = budget - 1
    /\ UNCHANGED <<engine, pc>>

\* a requested outbound substream is negotiated
OutboundNegotiated ==
    /\ budget > 0
    /\ \E index \in Indexes :
          /\ conn.negotiating[index] > 0
          /\ handler' = OnFullyNegotiatedOutbound(handler, index,
                            OutboundSubstream(conn.substreams + 1),
                            RemoteHandshake)
          /\ conn' = [conn EXCEPT !.substreams = @ + 1,
                                   !.negotiating[index] = @ - 1]
          /\ last' = HStep("FullyNegotiatedOutbound", index, PollPending)
    /\ budget' = budget - 1
    /\ UNCHANGED <<engine, pc>>

\* a requested outbound substream fails
DialUpgradeError ==
    /\ budget > 0
    /\ \E index \in Indexes :
          /\ conn.negotiating[index] > 0
          /\ handler' = OnDialUpgradeError(handler, index)
          /\ conn' = [conn EXCEPT !.negotiating[index] = @ - 1]
          /\ last' = HStep("DialUpgradeError", index, PollPending)
    /\ budget' = budget - 1
    /\ UNCHANGED <<engine, pc>>

\* the user pushes a message into the channel of an open protocol
UserSend ==
    /\ budget > 0
    /\ \E index \in Indexes :
          /\ handler.protocols[index].tag = "Open"
          /\ handler' = [handler EXCEPT !.protocols[index].recv.queue =
                            Append(@, conn.messages + 1)]
          /\ last' = HStep("UserSend", index, PollPending)
    /\ conn' = [conn EXCEPT !.messages = @ + 1]
    /\ budget' = budget - 1
    /\ UNCHANGED <<engine, pc>>

\* the connection polls the handler; a substream request goes to the swarm
Poll ==
    /\ budget > 0
    /\ \E io \in IOs(handler) :
          LET r == poll(handler, io)
          IN /\ handler' = r.h
             /\ last' = PollStep(io, r.ret)
             /\ conn' = IF r.ret.kind = "OutboundSubstreamRequest"
                        THEN [conn EXCEPT !.negotiating[r.ret.index] = @ + 1]
                        ELSE conn
    /\ budget' = budget - 1
    /\ UNCHANGED <<engine, pc>>

HandlerNext ==
    \/ BehaviourOpen
    \/ BehaviourClose
    \/ InboundNegotiated
    \/ OutboundNegotiated
    \/ DialUpgradeError
    \/ UserSend
    \/ Poll

HandlerSpec == HandlerInit /\ [][HandlerNext]_vars

\* the handler over longer runs
LongHandlerInit ==
    /\ engine = New(<<>>)
    /\ pc = "handler"
    /\ budget = MaxLongHandlerSteps
    /\ last = HStep("new", 0, PollPending)
    /\ handler = NewHandler
    /\ conn = NewConn

LongHandlerSpec == LongHandlerInit /\ [][HandlerNext]_vars

----------------------------------------------------------------------------
(* Properties of the authority discovery engine *)

InFlight == DOMAIN engine.queries
Resubmitted == "resubmit_remaining_dht_queries" \in engine.called
Advanced == "advance_dht_queries" \in engine.called

\* the step handled a record that was found
FoundStep(step) == step.action = "GetRecord" /\ step.tag = "FoundRecord"
\* ... under a key of the engine, and decode_dht_record failed on it
DecodeFailed(step) == FoundStep(step) /\ step.key # ForeignKey /\ ~step.valid
\* the authority whose key the record of the step carries
AuthorityOf(step) == step.key - HashAuthorityId(0)

\* C1: whenever the engine waits for its next event, at most MAX_QUERIES = 8
\* record lookups are in flight.
C1_InFlightRecordsBounded == Cardinality(InFlight) <= MAX_QUERIES

\* a resubmit_timer tick found more than MAX_QUERIES unresolved authorities
\* and left exactly MAX_QUERIES lookups in flight
C1_Witness ==
    /\ last.action = "ResubmitTick"
    /\ Cardinality(engine.remaining_authorities) > MAX_QUERIES
    /\ Cardinality(InFlight) = MAX_QUERIES

\* C2: whenever the engine waits for its next event, at most
\* MAX_DISCOVERY_QUERIES = 32 closest-peers lookups are in flight.
C2_InFlightDiscoveryBounded ==
    Cardinality(engine.queries_discovery) <= MAX_DISCOVERY_QUERIES

\* a GetClosestPeers result took one lookup out and the set was filled up again
C2_Witness ==
    /\ last.action = "GetClosestPeers"
    /\ last.in_flight
    /\ last.id \notin engine.queries_discovery
    /\ Cardinality(engine.queries_discovery) = MAX_DISCOVERY_QUERIES

\* C3: no authority with an entry in authority_to_details is in
\* remaining_authorities.
C3_ResolvedNotRemaining ==
    \A authority \in DOMAIN engine.authority_to_details :
        authority \notin engine.remaining_authorities

\* a record has just been decoded and stored for its authority
C3_Witness ==
    /\ FoundStep(last)
    /\ last.valid
    /\ AuthorityOf(last) \in DOMAIN engine.authority_to_details

\* C4 as stated: a found-record reply for a QueryId that has reported before
\* calls neither advance-queries nor resubmit-remaining and submits no lookup.
C4_LaterReplyDoesNotSchedule ==
    (FoundStep(last) /\ ~last.first /\ ~last.in_flight) =>
        engine.called \cap {"advance_dht_queries",
                            "resubmit_remaining_dht_queries",
                            "get_record"} = {}

\* C4, amended: the first report of a QueryId takes it out of queries; every
\* found-record reply that decodes, the first of its query or a later one,
\* merges its addresses into the address set of the authority and calls
\* advance-queries; a reply that does not decode calls neither advance-queries
\* nor resubmit-remaining.
C4_EveryDecodedReplySchedules ==
    FoundStep(last) =>
        /\ last.id \notin InFlight
        /\ Advanced <=> last.valid
        /\ Resubmitted => last.valid
        /\ last.valid =>
              /\ AuthorityOf(last) \in DOMAIN engine.authority_to_details
              /\ last.addresses \subseteq
                    engine.authority_to_details[AuthorityOf(last)]

\* a later reply of a query decoded, was merged and called advance-queries
C4_Witness ==
    /\ FoundStep(last)
    /\ ~last.first
    /\ ~last.in_flight
    /\ last.valid
    /\ Advanced

\* C5: every swarm event that takes a QueryId out of queries runs
\* advance-queries, so that no slot stays free while an authority is still to
\* be submitted.
C5_RemovalAdvances ==
    (last.action = "GetRecord" /\ last.in_flight) =>
        /\ Advanced
        /\ engine.query_index < Len(engine.authorities) =>
              Cardinality(InFlight) = MAX_QUERIES

C8_EveryFailureCounted ==
    [][(DecodeFailed(last') \/ (last'.action = "GetRecord" /\ last'.tag = "Err"))
          => engine'.dht_errors = engine.dht_errors + 1]_vars

\* C9: discover() returns, and only on a tick of interval_exit after the one
\* consumed at startup: no swarm event and no resubmit tick ends the loop.
C9_ReturnsOnlyOnExitTick ==
    /\ <>(pc = "done")
    /\ [][pc = "loop" =>
            IF last'.action = "ExitTick"
            THEN pc' = "done" /\ engine'.interval_exit = 2
            ELSE pc' = "loop"]_vars

\* every authority is resolved and discover is still in its loop
C9_Witness ==
    /\ pc = "loop"
    /\ engine.authorities # <<>>
    /\ engine.remaining_authorities = {}
    /\ FoundStep(last)

----------------------------------------------------------------------------
(* Properties of the notifications handler *)

\* the outbound substream requests of a protocol that await their result:
\* those queued in pending_events and those the swarm has taken
Outstanding(index) ==
    conn.negotiating[index]
      + Cardinality({k \in 1..Len(handler.pending_events) :
            handler.pending_events[k] = OutboundSubstreamRequest(index)})

PendingOpening(index) ==
    /\ handler.protocols[index].tag \in {"Closed", "OpenDesiredByRemote"}
    /\ handler.protocols[index].pending_opening

\* C10: pending_opening is true only while an outbound substream request of
\* the protocol awaits its result.
C10_PendingOpeningHasRequest ==
    \A index \in Indexes : PendingOpening(index) => Outstanding(index) > 0

\* a Close cancelled a handshake whose request the swarm is negotiating
C10_Witness ==
    \E index \in Indexes :
        /\ PendingOpening(index)
        /\ last.action = "Close"
        /\ conn.negotiating[index] = 1

\* C11: an Open received while pending_opening is true queues no
\* OutboundSubstreamRequest, and at most one outbound substream request per
\* protocol is outstanding at any time.
C11_AtMostOneOutstandingRequest ==
    /\ [](\A index \in Indexes : Outstanding(index) <= 1)
    /\ [][(last'.action = "Open" /\ PendingOpening(last'.index)) =>
            /\ handler'.pending_events = handler.pending_events
            /\ handler'.protocols[last'.index].tag = "Opening"]_vars

\* an Open arrived after a Close had cancelled a handshake whose request the
\* swarm is still negotiating: the protocol is Opening again, the events of
\* the Close are still queued and the only request is the first one
C11_Witness ==
    \E index \in Indexes :
        /\ last = HStep("Open", index, PollPending)
        /\ handler.protocols[index].tag = "Opening"
        /\ handler.pending_events = <<EvHandshakeError(index), EvClose(index)>>
        /\ conn.negotiating[index] = 1

\* C12: connection_keep_alive returns Yes if and only if some protocol is in
\* OpenDesiredByRemote, Opening or Open, whatever pending_opening is and
\* whether or not the substreams of an Open protocol have been dropped.
C12_KeepAliveIffNotAllClosed ==
    connection_keep_alive(handler) = "Yes" <=>
        \E index \in Indexes :
            handler.protocols[index].tag \in
                {"OpenDesiredByRemote", "Opening", "Open"}

\* an Open protocol has lost its outbound substream to a flush error and has
\* no inbound substream, the other protocol is Closed: keep-alive is Yes
C12_Witness ==
    \E index \in Indexes :
        /\ last.action = "poll"
        /\ last.ret = EvCloseDesired(index)
        /\ handler.protocols[index].tag = "Open"
        /\ handler.protocols[index].inbound_substream = None
        /\ handler.protocols[index].outbound_substream = None
        /\ handler.protocols[1 - index].tag = "Closed"
        /\ connection_keep_alive(handler) = "Yes"

\* the HandshakeCompleted and HandshakeError events of a protocol that are
\* queued in pending_events
Answers(h, index) ==
    Cardinality({k \in 1..Len(h.pending_events) :
        /\ h.pending_events[k].kind \in {"HandshakeCompleted", "HandshakeError"}
        /\ h.pending_events[k].index = index})

\* a protocol has an unanswered Open exactly while it is Opening
Unanswered(h, index) == h.protocols[index].tag = "Opening"

\* C13: only an Open moves a protocol into Opening; the handler queues a
\* HandshakeCompleted or HandshakeError of a protocol only while that
\* protocol is Opening, one event, exactly when the outbound result of the
\* protocol is delivered or a Close of it arrives, and the protocol leaves
\* Opening with it; a dial upgrade error in Opening queues HandshakeError.
C13_OneAnswerPerOpen ==
    [][\A index \in Indexes :
        LET answers == Answers(handler', index) - Answers(handler, index)
            ends == /\ last'.index = index
                    /\ last'.action \in {"FullyNegotiatedOutbound",
                                          "DialUpgradeError", "Close"}
        IN /\ (Unanswered(handler', index) /\ ~Unanswered(handler, index))
                  => last' = HStep("Open", index, PollPending)
           /\ IF last'.action = "poll"
              THEN /\ answers <= 0
                   /\ Unanswered(handler', index) = Unanswered(handler, index)
              ELSE IF Unanswered(handler, index) /\ ends
              THEN /\ answers = 1
                   /\ ~Unanswered(handler', index)
                   /\ last'.action = "DialUpgradeError" =>
                          /\ handler'.pending_events =
                                Append(handler.pending_events,
                                       EvHandshakeError(index))
                          /\ handler'.protocols[index] = Closed(FALSE)
              ELSE answers = 0]_vars

\* two Opens of one protocol, each answered once: the first by the
\* HandshakeError of the Close that cancelled it, the second by the
\* HandshakeError of the dial upgrade error
C13_Witness ==
    \E index \in Indexes :
        /\ last = HStep("DialUpgradeError", index, PollPending)
        /\ handler.pending_events =
              <<EvHandshakeError(index), EvClose(index), EvHandshakeError(index)>>
        /\ handler.protocols[index] = Closed(FALSE)

\* the round trip Open, fully negotiated outbound, Close of one protocol,
\* fed to handler h one after the other
RoundTripHolds(h, index) ==
    LET substream == OutboundSubstream(conn.substreams + 1)
        channel == h.channels + 1
        h1 == OnBehaviourOpen(h, index)
        h2 == OnFullyNegotiatedOutbound(h1, index, substream, RemoteHandshake)
        h3 == OnBehaviourClose(h2, index)
        others(g) == [i \in Indexes \ {index} |-> g.protocols[i]]
    IN /\ h1.protocols[index] = Opening(None, FALSE)
       /\ h1.pending_events =
             Append(h.pending_events, OutboundSubstreamRequest(index))
       /\ h2.protocols[index] =
             Open([id |-> channel, queue |-> <<>>], None, Some(substream))
       /\ h2.pending_events =
             Append(h1.pending_events,
                    EvHandshakeCompleted(index, RemoteHandshake, FALSE, channel))
       /\ h3.protocols[index] = Closed(FALSE)
       /\ h3.pending_events = Append(h2.pending_events, EvClose(index))
       /\ others(h3) = others(h)

\* C14: from Closed{pending_opening: false}, Open queues one outbound
\* substream request and sets Opening{inbound: false}; a following fully
\* negotiated outbound sets Open and queues HandshakeCompleted; a following
\* Close sets Closed{pending_opening: false} and queues Close; these three
\* events are queued in this order with no other event in between.
C14_OpenCloseRoundTrip ==
    /\ [](\A index \in Indexes :
            handler.protocols[index] = Closed(FALSE) =>
                RoundTripHolds(handler, index))
    /\ [][\A index \in Indexes :
            LET before == handler.protocols[index]
                after == handler'.protocols[index]
                queued(ev) ==
                    handler'.pending_events = Append(handler.pending_events, ev)
            IN /\ (last' = HStep("Open", index, PollPending)
                      /\ before = Closed(FALSE))
                    => /\ after = Opening(None, FALSE)
                       /\ queued(OutboundSubstreamRequest(index))
               /\ (last' = HStep("FullyNegotiatedOutbound", index, PollPending)
                      /\ before = Opening(None, FALSE))
                    => /\ after.tag = "Open"
                       /\ after.outbound_substream # None
                       /\ queued(EvHandshakeCompleted(index, RemoteHandshake,
                                                      FALSE, after.recv.id))
               /\ (last' = HStep("Close", index, PollPending)
                      /\ before.tag = "Open")
                    => /\ after = Closed(FALSE)
                       /\ queued(EvClose(index))]_vars

\* the round trip has run on a connection whose swarm took the substream
\* request and nothing else: HandshakeCompleted and Close are queued behind
\* each other and the protocol is Closed{pending_opening: false} again
C14_Witness ==
    \E index \in Indexes :
        /\ last = HStep("Close", index, PollPending)
        /\ handler.protocols[index] = Closed(FALSE)
        /\ handler.pending_events =
              <<EvHandshakeCompleted(index, RemoteHandshake, FALSE, 1),
                EvClose(index)>>
        /\ conn.negotiating[index] = 0

\* C15: a dial upgrade error of a protocol that is Opening, whatever its
\* inbound flag and whether or not it holds an inbound substream, sets the
\* protocol to Closed{pending_opening: false} and queues exactly one
\* HandshakeError of it; the other protocol is unchanged.
C15_DialUpgradeErrorInOpening ==
    [][\A index \in Indexes :
        (/\ last' = HStep("DialUpgradeError", index, PollPending)
         /\ handler.protocols[index].tag = "Opening")
        => /\ handler'.protocols[index] = Closed(FALSE)
           /\ handler'.pending_events =
                 Append(handler.pending_events, EvHandshakeError(index))
           /\ handler'.protocols[1 - index] = handler.protocols[1 - index]
           /\ handler'.channels = handler.channels]_vars

\* the dial upgrade error found the protocol Opening with the inbound
\* substream the remote had opened: four steps (Open, the poll that hands
\* out the request, the inbound substream, the error) lead here
C15_Witness ==
    \E index \in Indexes :
        /\ last = HStep("DialUpgradeError", index, PollPending)
        /\ budget = MaxHandlerSteps - 4
        /\ conn.substreams = 1
        /\ handler.pending_events = <<EvHandshakeError(index)>>
        /\ handler.protocols = [i \in Indexes |-> Closed(FALSE)]

\* C16: Close from the behaviour leaves the protocol Closed and queues
\* exactly one Close of it, as the last event; from Opening it queues
\* HandshakeError before the Close and ends in Closed{pending_opening: true};
\* from Open it ends in Closed{pending_opening: false}; from Closed and from
\* OpenDesiredByRemote it keeps the value of pending_opening.
C16_CloseAlwaysCloses ==
    [][\A index \in Indexes :
        last' = HStep("Close", index, PollPending) =>
            LET before == handler.protocols[index]
                after == handler'.protocols[index]
                queue == handler.pending_events
            IN /\ after.tag = "Closed"
               /\ handler'.protocols[1 - index] = handler.protocols[1 - index]
               /\ CASE before.tag = "Opening" ->
                        /\ after.pending_opening
                        /\ handler'.pending_events =
                              queue \o <<EvHandshakeError(index), EvClose(index)>>
                    [] before.tag = "Open" ->
                        /\ ~after.pending_opening
                        /\ handler'.pending_events = Append(queue, EvClose(index))
                    [] OTHER ->
                        /\ after.pending_opening = before.pending_opening
                        /\ handler'.pending_events = Append(queue, EvClose(index))
      ]_vars

\* a Close found the protocol in OpenDesiredByRemote with pending_opening
\* true (an earlier Close had cancelled a handshake) and kept the flag
C16_Witness ==
    \E index \in Indexes :
        /\ last = HStep("Close", index, PollPending)
        /\ handler.protocols[index] = Closed(TRUE)
        /\ handler.pending_events =
              <<OutboundSubstreamRequest(index), EvHandshakeError(index),
                EvClose(index), EvOpenDesiredByRemote(index), EvClose(index)>>

\* C17: a fully negotiated inbound substream of a protocol that is Opening
\* or Open and holds an inbound substream already is ignored: the state of
\* the protocol, the stored substream and pending_events are unchanged.
C17_DuplicateInboundIgnored ==
    [][\A index \in Indexes :
        (/\ last' = HStep("FullyNegotiatedInbound", index, PollPending)
         /\ handler.protocols[index].tag \in {"Opening", "Open"}
         /\ handler.protocols[index].inbound_substream # None)
        => handler' = handler]_vars

\* the remote opened a second inbound substream of a protocol that is
\* Opening: the first one is still the one stored
C17_Witness ==
    \E index \in Indexes :
        /\ last = HStep("FullyNegotiatedInbound", index, PollPending)
        /\ budget = MaxHandlerSteps - 3
        /\ conn.substreams = 2
        /\ handler.protocols[index].tag = "Opening"
        /\ handler.protocols[index].inbound_substream =
              Some(SetHandshake(InboundSubstream(1), ProtoHandshake(index)))

\* the messages of an Open protocol that its outbound substream was handed
Sent(state) ==
    IF state.outbound_substream = None THEN <<>>
    ELSE state.outbound_substream[1].sent

Increasing(seq) == \A j, k \in 1..Len(seq) : j < k => seq[j] < seq[k]

\* C18: the messages handed to the outbound substream of an Open protocol,
\* followed by those still in its channel, are in the order of their
\* insertion into the channel (messages are numbered as they are inserted);
\* a poll takes messages from the front of the channel only, hands them to
\* the substream in that order, and takes no more of them than the substream
\* has reported ready in that poll.
C18_MessagesInChannelOrder ==
    /\ [](\A index \in Indexes :
            handler.protocols[index].tag = "Open" =>
                Increasing(Sent(handler.protocols[index])
                             \o handler.protocols[index].recv.queue))
    /\ [][\A index \in Indexes :
            (last'.action = "poll" /\ handler.protocols[index].tag = "Open") =>
                LET before == handler.protocols[index]
                    after == handler'.protocols[index]
                    taken == Len(before.recv.queue) - Len(after.recv.queue)
                IN /\ after.tag = "Open"
                   /\ taken \in 0..last'.io.ready[index]
                   /\ before.recv.queue =
                         SubSeq(before.recv.queue, 1, taken) \o after.recv.queue
                   /\ after.outbound_substream # None =>
                         Sent(after) = Sent(before)
                             \o SubSeq(before.recv.queue, 1, taken)
                   /\ taken > 0 => before.outbound_substream # None]_vars

\* a poll found two messages in the channel and the substream ready once:
\* the first message was handed to the substream, the second one waits
C18_Witness ==
    \E index \in Indexes :
        /\ last.action = "poll"
        /\ last.io.ready[index] = 1
        /\ handler.protocols[index].tag = "Open"
        /\ Sent(handler.protocols[index]) = <<1>>
        /\ handler.protocols[index].recv.queue = <<2>>

\* the protocols whose outbound substream a poll flushes with an error
FlushErrors(h, io) ==
    {i \in Indexes : /\ h.protocols[i].tag = "Open"
                      /\ h.protocols[i].outbound_substream # None
                      /\ io.flush[i] = "Err"}

\* the inbound side of a protocol: its state tag and its inbound substream
InboundSide(state) ==
    [tag |-> state.tag,
     inbound_substream |-> IF state.tag = "Closed" THEN None
                           ELSE IF state.tag = "OpenDesiredByRemote"
                           THEN Some(state.inbound_substream)
                           ELSE state.inbound_substream]

\* C19: a poll that finds pending_events non-empty returns its oldest event
\* and does nothing else; otherwise it sends the user messages first, then
\* flushes, then polls the inbound substreams: a flush error is returned as
\* CloseDesired of the first protocol that has one, after the messages of
\* every protocol were sent and before any inbound substream is looked at.
C19_PollOrder ==
    [][last'.action = "poll" =>
        IF handler.pending_events # <<>>
        THEN /\ last'.ret = Head(handler.pending_events)
             /\ handler'.pending_events = Tail(handler.pending_events)
             /\ handler'.protocols = handler.protocols
        ELSE LET io == last'.io
                 errors == FlushErrors(handler, io)
                 sent == PollSend(handler, io)
             IN /\ handler'.pending_events = <<>>
                /\ \A i \in Indexes :
                      handler.protocols[i].tag = "Open" =>
                          handler'.protocols[i].recv = sent.protocols[i].recv
                /\ errors # {} =>
                      /\ last'.ret = EvCloseDesired(
                                         CHOOSE i \in errors :
                                             \A j \in errors : i <= j)
                      /\ \A i \in Indexes :
                            InboundSide(handler'.protocols[i]) =
                                InboundSide(handler.protocols[i])
                /\ errors = {} =>
                      last'.ret = PollInbound(sent, io, 0).ret]_vars

\* in one poll the outbound substream of a protocol failed to flush and its
\* inbound substream had a notification: the poll returned CloseDesired and
\* left the inbound substream alone
C19_Witness ==
    \E index \in Indexes :
        /\ last.action = "poll"
        /\ last.io.flush[index] = "Err"
        /\ last.io.inbound[index] = "Item"
        /\ last.ret = EvCloseDesired(index)
        /\ handler.protocols[index].tag = "Open"
        /\ handler.protocols[index].inbound_substream # None
        /\ handler.protocols[index].outbound_substream = None

----------------------------------------------------------------------------
(* Properties of the report *)

\* the peers that the addresses of a resolved authority name
PeersNamed(s, authority) ==
    {get_peer_id(addr)[1] : addr \in
        {a \in s.authority_to_details[authority] : get_peer_id(a) # None}}

\* C20: the report has one line per authority of the list, in the order of
\* the list; a line is "No dht response" iff the authority has no entry in
\* authority_to_details, otherwise it is "reached" iff peer_info holds the
\* identify info of the peer that the addresses of the authority name, and
\* "Cannot be reached" iff it does not.
C20_OneLinePerAuthority ==
    last.action = "Report" =>
        /\ Len(last.lines) = Len(engine.authorities)
        /\ \A i \in 1..Len(last.lines) :
              LET line == last.lines[i]
                  authority == engine.authorities[i]
                  resolved == authority \in DOMAIN engine.authority_to_details
                  identified ==
                      resolved /\ \E peer \in PeersNamed(engine, authority) :
                                      peer \in DOMAIN engine.peer_info
              IN /\ line.authority = authority
                 /\ line.kind = "No dht response" <=> ~resolved
                 /\ line.kind = "reached" <=> identified
                 /\ line.kind = "Cannot be reached" <=> (resolved /\ ~identified)

\* C21: in a "reached" line the value printed after addresses= is the set
\* of addresses discovered for the authority and the value printed after
\* version= is the agent_version of the identify info of the peer.
C21_ReachedLineFields ==
    last.action = "Report" =>
        \A i \in 1..Len(last.lines) :
            LET line == last.lines[i]
            IN line.kind = "reached" =>
                  /\ line.addresses[1].type = "HashSet"
                  /\ line.addresses[1].value =
                        engine.authority_to_details[line.authority]
                  /\ line.version[1].type = "String"
                  /\ line.version[1].value =
                        engine.peer_info[line.peer_id[1]].agent_version

\* the authorities of the list whose record was decoded and whose peer sent
\* its identify info
IdentifiedAuthorities(s) ==
    {i \in 1..Len(s.authorities) :
        /\ s.authorities[i] \in DOMAIN s.authority_to_details
        /\ \E peer \in PeersNamed(s, s.authorities[i]) :
              peer \in DOMAIN s.peer_info}

\* C22: the summary printed after the report lines states R/N and P, where N
\* is the number of authorities of the input list, R is the number of "reached"
\* lines, which is the number of authorities whose record was decoded and
\* whose peer was identified, and P is the number of entries of peer_info.
C22_SummaryCounts ==
    (last.action = "Report" /\ last.summary # None) =>
        LET summary == last.summary[1]
        IN /\ summary.authorities = Len(engine.authorities)
           /\ summary.reached_peers =
                 Cardinality({i \in 1..Len(last.lines) :
                                 last.lines[i].kind = "reached"})
           /\ summary.reached_peers =
                 Cardinality(IdentifiedAuthorities(engine))
           /\ summary.peers = Cardinality(DOMAIN engine.peer_info)

\* two authorities: the first is resolved and identified, the second is never
\* answered; the summary reads "Discovered 1/2 authorities"
C22_Witness ==
    /\ last.action = "Report"
    /\ Len(last.lines) = 2
    /\ last.lines[1].kind = "reached"
    /\ last.lines[2].kind = "No dht response"
    /\ last.summary =
          Some([reached_peers |-> 1, authorities |-> 2, peers |-> 1])

----------------------------------------------------------------------------
(* The empty authority list *)

\* C23 as stated: with an empty authority list the engine submits no query,
\* queries and queries_discovery stay empty for the whole run, discover
\* returns on the exit tick and the summary reads 0/0.
C23_EmptyListSubmitsNothing ==
    Len(engine.authorities) = 0 =>
        /\ InFlight = {}
        /\ engine.queries_discovery = {}
        /\ pc = "done" => last.action = "ExitTick"
        /\ (last.action = "Report" /\ last.summary # None) =>
              /\ last.summary[1].reached_peers = 0
              /\ last.summary[1].authorities = 0

\* C23, amended: with an empty authority list the engine submits no record
\* lookup, so that queries stays empty for the whole run, but discover fills
\* queries_discovery with MAX_DISCOVERY_QUERIES closest-peers lookups and
\* keeps it full; discover returns on the exit tick only, and the report has
\* no line and the summary 0/0.
C23_EmptyListSubmitsNoRecordLookup ==
    Len(engine.authorities) = 0 =>
        /\ InFlight = {}
        /\ DOMAIN engine.swarm.get_record = {}
        /\ "get_record" \notin engine.called
        /\ pc = "new" => engine.queries_discovery = {}
        /\ pc # "new" =>
              Cardinality(engine.queries_discovery) = MAX_DISCOVERY_QUERIES
        /\ pc = "done" => last.action = "ExitTick"
        /\ last.action = "Report" =>
              /\ last.lines = <<>>
              /\ last.summary # None
              /\ last.summary[1].reached_peers = 0
              /\ last.summary[1].authorities = 0

\* the report of a run over the empty list, after a closest-peers lookup
\* ended during the run
C23_Witness ==
    /\ Len(engine.authorities) = 0
    /\ last.action = "Report"
    /\ budget < MaxSteps
    /\ Cardinality(engine.queries_discovery) = MAX_DISCOVERY_QUERIES

----------------------------------------------------------------------------
(* decode_dht_record on its own: every payload of a bounded set is decoded
   for an authority *)

\* the addresses a record can hold: two addresses of one peer, an address of
\* another peer, an address without a peer, and bytes that are no address
CodecAddrs ==
    {Addr(1, ToPeerId(1)), Addr(2, ToPeerId(1)), Addr(1, ToPeerId(2)),
     AddrNoPeer(1), AddrInvalid}

\* the records: address lists of up to MaxAddrs entries, and bytes that are
\* no record
CodecRecords ==
    {AuthorityRecord(list) :
        list \in UNION {[1..n -> CodecAddrs] : n \in 0..MaxAddrs}}
    \cup {[decodes |-> FALSE, addresses |-> <<>>]}

\* a message that is not the record of the payload
OtherMessage == [decodes |-> FALSE, addresses |-> <<AddrInvalid>>]

\* the signatures a field can hold for a record: by either key, over the
\* record or over another message
CodecSigs(record) ==
    {Sig(1, record), Sig(2, record), Sig(1, OtherMessage)}

\* the peer_signature fields: absent, a public key that does not decode, or
\* a key with a signature
CodecPeerSignatures(record) ==
    {None, Some(PeerSignature(FALSE, 1, Sig(1, record)))}
    \cup {Some(PeerSignature(TRUE, k, sig)) :
              k \in PeerKeys, sig \in CodecSigs(record)}

CodecStep(action, value, authority_id, result) ==
    [action |-> action, value |-> value, authority_id |-> authority_id,
     result |-> result]

CodecInit ==
    /\ engine = New(<<>>)
    /\ pc = "codec"
    /\ budget = 0
    /\ \E record \in CodecRecords :
       \E len \in 63..65 :
       \E sig \in CodecSigs(record) :
       \E peer_signature \in CodecPeerSignatures(record) :
       \E authority_id \in {1, 2} :
          last = CodecStep("input",
                     SignedAuthorityRecord(record, len, sig, peer_signature),
                     authority_id, None)
    /\ handler = NewHandler
    /\ conn = NewConn

\* CodecInit draws a payload (auth_signature fields of 63, 64 and 65 bytes)
\* and an authority; the payload is then decoded for the authority
Decode ==
    /\ pc = "codec"
    /\ last' = CodecStep("decode_dht_record", last.value, last.authority_id,
                         Some(decode_dht_record(last.value, last.authority_id)))
    /\ pc' = "decoded"
    /\ UNCHANGED <<engine, budget, handler, conn>>

CodecNext == Decode

CodecSpec == CodecInit /\ [][CodecNext]_vars

----------------------------------------------------------------------------
(* Properties of the record codec *)

\* the call of decode_dht_record that has just returned, and its result
Decoded == last.action = "decode_dht_record"
DecodeResult == last.result[1]

\* the addresses of a list that end in a P2p segment
WithPeer(addresses) ==
    {i \in 1..Len(addresses) :
        /\ Len(addresses[i]) > 0
        /\ addresses[i][Len(addresses[i])].proto = "p2p"}

\* C24: whenever decode_dht_record succeeds with (peer_id, addresses), the
\* terminal P2p peer identifiers found in the returned addresses form a set of
\* exactly one element, and that element is the returned peer_id.
C24_OnePeerInDecodedAddresses ==
    (Decoded /\ DecodeResult.ok) =>
        LET addresses == DecodeResult.addresses
            peers == {addresses[i][Len(addresses[i])].val :
                         i \in WithPeer(addresses)}
        IN peers = {DecodeResult.peer_id}

\* a payload with two addresses was decoded
C24_Witness ==
    /\ Decoded
    /\ DecodeResult.ok
    /\ Len(DecodeResult.addresses) = 2
    /\ WithPeer(DecodeResult.addresses) = {1, 2}

\* C25: decode_dht_record fails for every payload whose auth_signature field
\* is not exactly 64 bytes long, shorter or longer, and for every payload
\* whose auth_signature does not verify over the record under the public key
\* of the authority.
C25_BadAuthSignatureFails ==
    Decoded =>
        LET auth_signature == last.value.auth_signature
        IN (\/ auth_signature.len # 64
            \/ ~sr25519_verify(auth_signature.sig, last.value.record,
                               last.authority_id))
           => ~DecodeResult.ok

\* the payload is a record of parseable addresses, not empty, that name the
\* single peer of the key of peer_signature, signed by the authority (a
\* signature of 64 bytes) and by that key
CorrectlySigned(value, authority_id) ==
    /\ value.decodes
    /\ value.record.decodes
    /\ value.auth_signature.len = 64
    /\ value.auth_signature.sig = Sig(authority_id, value.record)
    /\ value.record.addresses # <<>>
    /\ \A i \in 1..Len(value.record.addresses) :
          \A k \in 1..Len(value.record.addresses[i]) :
              value.record.addresses[i][k].proto # "invalid"
    /\ value.peer_signature # None
    /\ value.peer_signature[1].key_decodes
    /\ value.peer_signature[1].signature =
          Sig(value.peer_signature[1].public_key, value.record)
    /\ WithPeer(value.record.addresses) # {}
    /\ \A i \in WithPeer(value.record.addresses) :
          LET address == value.record.addresses[i]
          IN address[Len(address)].val =
                ToPeerId(value.peer_signature[1].public_key)

\* C26: for a record correctly signed by the authority and by the peer, whose
\* non-empty address list names a single terminal peer, the one of the peer
\* key, decode_dht_record succeeds and returns that peer and the addresses of
\* the record, all of them, each once, in their order.
C26_DecodeReturnsAddressesInOrder ==
    (Decoded /\ CorrectlySigned(last.value, last.authority_id)) =>
        /\ DecodeResult.ok
        /\ DecodeResult.peer_id =
              ToPeerId(last.value.peer_signature[1].public_key)
        /\ DecodeResult.addresses = last.value.record.addresses

\* a correctly signed record of two different addresses, the one with the
\* larger host first, was decoded
C26_Witness ==
    /\ Decoded
    /\ CorrectlySigned(last.value, last.authority_id)
    /\ last.value.record.addresses =
          <<Addr(2, ToPeerId(1)), Addr(1, ToPeerId(1))>>
    /\ DecodeResult.ok

----------------------------------------------------------------------------
(* Properties of the aggregated maps *)

\* every entry of the map before is an entry of the map after, with an
\* address set that contains the one before
GrowsTo(before, after) ==
    \A k \in DOMAIN before :
        /\ k \in DOMAIN after
        /\ before[k] \subseteq after[k]

PeerAddresses(s) ==
    [p \in DOMAIN s.peer_details |-> s.peer_details[p].addresses]

\* C27: the address set authority_to_details[a] of every authority a only
\* grows: across every step an address of the set stays in it and an entry
\* is never removed; the same holds for peer_details[p].addresses of every
\* peer p.
C27_AddressSetsGrow ==
    [][/\ GrowsTo(engine.authority_to_details, engine'.authority_to_details)
       /\ GrowsTo(PeerAddresses(engine), PeerAddresses(engine'))]_vars

\* a later record of an authority brought fewer addresses than the set of the
\* authority holds
C27_Witness ==
    /\ FoundStep(last)
    /\ last.valid
    /\ last.addresses # engine.authority_to_details[AuthorityOf(last)]
    /\ \E p \in DOMAIN engine.peer_details :
          /\ last.addresses \subseteq engine.peer_details[p].addresses
          /\ last.addresses # engine.peer_details[p].addresses

----------------------------------------------------------------------------
(* to_ss58: the prefix bytes of an SS58 address (lines 589-603) *)

\* the bitwise operators of u16 and u8 values
RECURSIVE BitAnd(_, _)
BitAnd(x, y) ==
    IF x = 0 \/ y = 0 THEN 0
    ELSE (x % 2) * (y % 2) + 2 * BitAnd(x \div 2, y \div 2)

RECURSIVE BitOr(_, _)
BitOr(x, y) ==
    IF x = 0 THEN y
    ELSE IF y = 0 THEN x
    ELSE (IF x % 2 = 1 \/ y % 2 = 1 THEN 1 ELSE 0)
         + 2 * BitOr(x \div 2, y \div 2)

Shr(x, n) == x \div (2 ^ n)
\* x << n of a u8: the bits shifted out of the byte are lost
ShlU8(x, n) == (x * (2 ^ n)) % 256
\* x as u8
AsU8(x) == x % 256

\* the versions a u16 holds
Versions == 0..65535

\* to_ss58 that takes the one-byte form up to ident 64
to_ss58_prefix_one_byte_64(version) ==
    LET ident == BitAnd(version, 16383)
    IN IF ident <= 64 THEN <<AsU8(ident)>>
       ELSE LET first == Shr(AsU8(BitAnd(ident, 252)), 2)
                second == BitOr(AsU8(Shr(ident, 8)),
                                ShlU8(AsU8(BitAnd(ident, 3)), 6))
            IN <<BitOr(first, 64), second>>

\* to_ss58, lines 591-603: the bytes put in front of the key.  The third arm
\* of the match cannot be reached, ident being below 16384.
to_ss58_prefix(version) ==
    LET ident == BitAnd(version, 16383)
    IN IF ident <= 63 THEN <<AsU8(ident)>>
       ELSE LET first == Shr(AsU8(BitAnd(ident, 252)), 2)
                second == BitOr(AsU8(Shr(ident, 8)),
                                ShlU8(AsU8(BitAnd(ident, 3)), 6))
            IN <<BitOr(first, 64), second>>

Ss58Step(action, version, prefix) ==
    [action |-> action, version |-> version, prefix |-> prefix]

Ss58Init ==
    /\ engine = New(<<>>)
    /\ pc = "ss58"
    /\ budget = 0
    /\ \E version \in Versions : last = Ss58Step("input", version, <<>>)
    /\ handler = NewHandler
    /\ conn = NewConn

\* to_ss58 is called with the version drawn
ToSs58 ==
    /\ pc = "ss58"
    /\ last' = Ss58Step("to_ss58", last.version, to_ss58_prefix(last.version))
    /\ pc' = "encoded"
    /\ UNCHANGED <<engine, budget, handler, conn>>

Ss58Next == ToSs58

Ss58Spec == Ss58Init /\ [][Ss58Next]_vars

\* the ident that a prefix stands for
IdentOf(prefix) ==
    IF Len(prefix) = 1 THEN prefix[1]
    ELSE (prefix[1] - 64) * 4 + (prefix[2] \div 64) + (prefix[2] % 64) * 256

\* C28: with ident the low 14 bits of the version, to_ss58 emits the one byte
\* ident for ident in 0..63 and two bytes for ident in 64..16383, the first
\* being bits 2-7 of ident with bit 6 set and the second bits 8-13 of ident
\* with bits 0-1 of ident in its two high bits, both within a byte; distinct
\* idents get distinct prefixes, as each prefix gives back its ident.
C28_Ss58Prefix ==
    last.action = "to_ss58" =>
        LET ident == last.version % 16384
            prefix == last.prefix
        IN /\ \A i \in 1..Len(prefix) : prefix[i] \in 0..255
           /\ ident <= 63 => prefix = <<ident>>
           /\ ident >= 64 =>
                 /\ Len(prefix) = 2
                 /\ prefix[1] = ((ident % 256) \div 4) + 64
                 /\ prefix[2] = (ident \div 256) + (ident % 4) * 64
           /\ IdentOf(prefix) = ident

\* version 0x4040, of ident 64: the first ident with two bytes, 0x50 0x00
C28_Witness ==
    /\ last.action = "to_ss58"
    /\ last.version = 16448
    /\ last.prefix = <<80, 0>>

----------------------------------------------------------------------------
(* Properties of the resubmission *)

\* the authorities that queries holds a lookup for
Queried(s) == Range(s.queries)

\* C29: after resubmit-remaining, queries holds no QueryId submitted before
\* the step and exactly min(|remaining_authorities|, MAX_QUERIES) new entries,
\* each for another authority of remaining_authorities; so with at most
\* MAX_QUERIES remaining authorities every one of them is queried again, and
\* every resubmit_timer tick runs resubmit-remaining.
C29_ResubmitRequeriesRemaining ==
    [][/\ Resubmitted' =>
             /\ \A id \in DOMAIN engine'.queries : id >= engine.swarm.next_id
             /\ Cardinality(DOMAIN engine'.queries) =
                   Min(Cardinality(engine'.remaining_authorities), MAX_QUERIES)
             /\ Cardinality(Queried(engine')) =
                   Cardinality(DOMAIN engine'.queries)
             /\ Queried(engine') \subseteq engine'.remaining_authorities
             /\ Cardinality(engine'.remaining_authorities) <= MAX_QUERIES =>
                   Queried(engine') = engine'.remaining_authorities
       /\ last'.action = "ResubmitTick" => Resubmitted']_vars

\* a resubmit_timer tick dropped lookups in flight and submitted MAX_QUERIES
\* lookups for the authorities taken of more than MAX_QUERIES remaining
C29_Witness ==
    /\ last.action = "ResubmitTick"
    /\ engine.dropped # {}
    /\ Cardinality(engine.remaining_authorities) > MAX_QUERIES
    /\ Cardinality(InFlight) = MAX_QUERIES

----------------------------------------------------------------------------
(* Properties of the notifications handler: the negotiated outbound
   substream *)

\* the channels of the protocols that are Open
OpenChannels(h) ==
    {h.protocols[i].recv.id : i \in {j \in Indexes : h.protocols[j].tag = "Open"}}

\* C30: a fully negotiated outbound substream of a protocol that is Opening
\* sets it to Open with that substream, the inbound substream that Opening
\* held and the receiver of a new channel, and queues exactly one
\* HandshakeCompleted of the protocol with the sender of that channel, the
\* handshake of the remote and is_inbound as the inbound flag of Opening; in
\* Closed and OpenDesiredByRemote it only clears pending_opening and queues
\* nothing; in Open it changes nothing.  The other protocol is left alone.
C30_NegotiatedOutbound ==
    [][\A index \in Indexes :
          last' = HStep("FullyNegotiatedOutbound", index, PollPending) =>
              LET before == handler.protocols[index]
                  after == handler'.protocols[index]
                  substream == OutboundSubstream(conn'.substreams)
              IN /\ \A other \in Indexes \ {index} :
                       handler'.protocols[other] = handler.protocols[other]
                 /\ before.tag = "Opening" =>
                       /\ after.tag = "Open"
                       /\ after.outbound_substream = Some(substream)
                       /\ after.inbound_substream = before.inbound_substream
                       /\ after.recv.queue = <<>>
                       /\ after.recv.id \notin OpenChannels(handler)
                       /\ handler'.pending_events =
                             Append(handler.pending_events,
                                 EvHandshakeCompleted(index, RemoteHandshake,
                                     before.inbound, after.recv.id))
                 /\ before.tag \in {"Closed", "OpenDesiredByRemote"} =>
                       /\ after = [before EXCEPT !.pending_opening = FALSE]
                       /\ handler'.pending_events = handler.pending_events
                 /\ before.tag = "Open" => handler' = handler]_vars

\* a protocol that the remote had asked for was opened: Open holds the inbound
\* and the outbound substream, and HandshakeCompleted says is_inbound
C30_Witness ==
    \E index \in Indexes :
        /\ last = HStep("FullyNegotiatedOutbound", index, PollPending)
        /\ handler.protocols[index].tag = "Open"
        /\ handler.protocols[index].inbound_substream # None
        /\ handler.protocols[index].outbound_substream # None
        /\ handler.pending_events # <<>>
        /\ handler.pending_events[Len(handler.pending_events)] =
              EvHandshakeCompleted(index, RemoteHandshake, TRUE,
                                   handler.protocols[index].recv.id)

----------------------------------------------------------------------------
(* Properties of the notifications handler: how Opening is entered *)

\* C31: Open received in OpenDesiredByRemote sets the protocol to
\* Opening{inbound: true} with the stored inbound substream, and queues an
\* outbound substream request exactly when pending_opening was false.  Opening
\* is entered by Open only, with inbound false from Closed; the flag does not
\* change while the protocol is Opening and is the is_inbound of the
\* HandshakeCompleted queued when the outbound substream is negotiated: so
\* is_inbound is true iff Opening was entered from OpenDesiredByRemote.
C31_OpenInOpenDesiredByRemote ==
    [][\A index \in Indexes :
          LET before == handler.protocols[index]
              after == handler'.protocols[index]
              opened == last' = HStep("Open", index, PollPending)
          IN /\ (opened /\ before.tag = "OpenDesiredByRemote") =>
                   /\ after = Opening(Some(SetHandshake(before.inbound_substream,
                                                        ProtoHandshake(index))),
                                      TRUE)
                   /\ handler'.pending_events =
                         IF before.pending_opening THEN handler.pending_events
                         ELSE Append(handler.pending_events,
                                     OutboundSubstreamRequest(index))
             /\ (opened /\ before.tag = "Closed") => after.inbound = FALSE
             /\ (before.tag # "Opening" /\ after.tag = "Opening") =>
                   /\ opened
                   /\ after.inbound <=> before.tag = "OpenDesiredByRemote"
             /\ (before.tag = "Opening" /\ after.tag = "Opening") =>
                   after.inbound = before.inbound
             /\ (before.tag = "Opening" /\ after.tag = "Open") =>
                   /\ handler'.pending_events # <<>>
                   /\ LET ev == handler'.pending_events[
                                    Len(handler'.pending_events)]
                      IN /\ ev.kind = "HandshakeCompleted"
                         /\ ev.index = index
                         /\ ev.is_inbound = before.inbound]_vars

\* Open arrived in OpenDesiredByRemote while the result of an earlier request
\* was pending: the protocol is Opening{inbound: true} with the inbound
\* substream, and no request was queued
C31_Witness ==
    \E index \in Indexes :
        /\ last = HStep("Open", index, PollPending)
        /\ handler.protocols[index].tag = "Opening"
        /\ handler.protocols[index].inbound
        /\ handler.protocols[index].inbound_substream # None
        /\ handler.pending_events =
              <<OutboundSubstreamRequest(index), EvHandshakeError(index),
                EvClose(index), EvOpenDesiredByRemote(index)>>

\* C32: a fully negotiated inbound substream of a protocol that is Closed
\* sets it to OpenDesiredByRemote with that substream and the pending_opening
\* it had, and queues exactly one OpenDesiredByRemote of the protocol; one
\* that arrives in OpenDesiredByRemote, Opening or Open queues no event and
\* leaves the protocol in the state variant it is in.
C32_InboundNegotiated ==
    [][\A index \in Indexes :
          last' = HStep("FullyNegotiatedInbound", index, PollPending) =>
              LET before == handler.protocols[index]
                  after == handler'.protocols[index]
              IN /\ before.tag = "Closed" =>
                       /\ after = OpenDesiredByRemote(
                                      InboundSubstream(conn'.substreams),
                                      before.pending_opening)
                       /\ handler'.pending_events =
                             Append(handler.pending_events,
                                    EvOpenDesiredByRemote(index))
                 /\ before.tag # "Closed" =>
                       /\ after.tag = before.tag
                       /\ handler'.pending_events = handler.pending_events
                 /\ before.tag = "OpenDesiredByRemote" => after = before]_vars

\* the remote opened a substream of a protocol whose cancelled handshake
\* still awaits the result of its request
C32_Witness ==
    \E index \in Indexes :
        /\ last = HStep("FullyNegotiatedInbound", index, PollPending)
        /\ handler.protocols[index].tag = "OpenDesiredByRemote"
        /\ handler.protocols[index].pending_opening
        /\ handler.pending_events # <<>>
        /\ handler.pending_events[Len(handler.pending_events)] =
              EvOpenDesiredByRemote(index)

----------------------------------------------------------------------------
(* Properties of the notifications handler: errors of the substreams in
   poll *)

\* seq starts with the elements of prefix
StartsWith(seq, prefix) ==
    /\ Len(prefix) <= Len(seq)
    /\ SubSeq(seq, 1, Len(prefix)) = prefix

\* C33: when the flush of the outbound substream of an Open protocol fails,
\* poll drops that substream and returns CloseDesired of the protocol.  The
\* protocol then stays Open without an outbound substream until the behaviour
\* sends Close: no message is taken from its channel any more, and no poll
\* returns CloseDesired of it again.
C33_FlushFailure ==
    [][\A index \in Indexes :
          LET before == handler.protocols[index]
              after == handler'.protocols[index]
              polled == last'.action = "poll" /\ handler.pending_events = <<>>
              failed == polled /\ index \in FlushErrors(handler, last'.io)
              dropped == before.tag = "Open" /\ before.outbound_substream = None
          IN /\ (failed /\ \A i \in FlushErrors(handler, last'.io) : index <= i)
                   => /\ after.tag = "Open"
                      /\ after.outbound_substream = None
                      /\ last'.ret = EvCloseDesired(index)
             /\ dropped =>
                   /\ after.tag # "Open" =>
                         /\ last' = HStep("Close", index, PollPending)
                         /\ after = Closed(FALSE)
                   /\ after.tag = "Open" =>
                         /\ after.outbound_substream = None
                         /\ StartsWith(after.recv.queue, before.recv.queue)
                   /\ last'.ret # EvCloseDesired(index)]_vars

\* after a failed flush the user sent a message and the handler was polled:
\* the message is still in the channel and the poll returned nothing
C33_Witness ==
    \E index \in Indexes :
        /\ last.action = "poll"
        /\ last.ret = PollPending
        /\ handler.protocols[index].tag = "Open"
        /\ handler.protocols[index].outbound_substream = None
        /\ handler.protocols[index].recv.queue # <<>>

\* the inbound loop of a poll returns at protocol index
InboundReturns(h, io, index) ==
    LET state == h.protocols[index]
    IN \/ /\ state.tag = "Open"
          /\ state.inbound_substream # None
          /\ io.inbound[index] = "Item"
       \/ /\ state.tag = "OpenDesiredByRemote"
          /\ io.inbound[index] = "Err"

\* a poll gets to the inbound substream of protocol index
InboundReached(h, io, index) ==
    /\ h.pending_events = <<>>
    /\ FlushErrors(h, io) = {}
    /\ \A i \in Indexes : i < index => ~InboundReturns(h, io, i)

\* C34: when the inbound handshake of a protocol in OpenDesiredByRemote fails
\* in poll, the protocol becomes Closed with the same pending_opening and poll
\* returns CloseDesired of it.  When the inbound handshake of a protocol in
\* Opening fails, poll only drops the inbound substream: the protocol stays in
\* Opening, no event of that protocol is returned, and poll returns Pending
\* unless a later protocol has something to return.
C34_InboundHandshakeFailure ==
    [][\A index \in Indexes :
          LET before == handler.protocols[index]
              after == handler'.protocols[index]
              io == last'.io
              failed == /\ last'.action = "poll"
                        /\ InboundReached(handler, io, index)
                        /\ io.inbound[index] = "Err"
          IN /\ (failed /\ before.tag = "OpenDesiredByRemote") =>
                   /\ after = Closed(before.pending_opening)
                   /\ last'.ret = EvCloseDesired(index)
             /\ (failed /\ before.tag = "Opening"
                        /\ before.inbound_substream # None) =>
                   /\ after = Opening(None, before.inbound)
                   /\ last'.ret # PollPending => last'.ret.index # index
                   /\ (\A i \in Indexes : i > index =>
                                            ~InboundReturns(handler, io, i))
                         => last'.ret = PollPending]_vars

\* the inbound handshake of a protocol in OpenDesiredByRemote failed while an
\* opening cancelled earlier was still pending: the protocol is Closed with the
\* opening still pending and the poll returned CloseDesired of it
C34_Witness ==
    \E index \in Indexes :
        /\ last.action = "poll"
        /\ last.io.inbound[index] = "Err"
        /\ handler.protocols[index] = Closed(TRUE)
        /\ last.ret = EvCloseDesired(index)

----------------------------------------------------------------------------
(* Properties of the notifications handler: Opening and the outbound
   request *)

\* C35: a protocol is in Opening only while exactly one outbound substream
\* request of it awaits its result.  An Open that finds an opening pending
\* enters Opening without a new request, and the result of the request, when
\* it arrives in Opening, ends the Opening: success opens the protocol, a dial
\* upgrade error closes it.
C35_OpeningHasOneRequest ==
    /\ [](\A index \in Indexes :
            handler.protocols[index].tag = "Opening" => Outstanding(index) = 1)
    /\ [][\A index \in Indexes :
            LET before == handler.protocols[index]
                after == handler'.protocols[index]
            IN /\ (last' = HStep("Open", index, PollPending)
                        /\ PendingOpening(index)) =>
                     /\ after.tag = "Opening"
                     /\ handler'.pending_events = handler.pending_events
                     /\ conn'.negotiating[index] + Cardinality(
                            {k \in 1..Len(handler'.pending_events) :
                                handler'.pending_events[k] =
                                    OutboundSubstreamRequest(index)}) = 1
               /\ (last' = HStep("FullyNegotiatedOutbound", index, PollPending)
                        /\ before.tag = "Opening") =>
                     /\ after.tag = "Open"
                     /\ conn'.negotiating[index] = 0
               /\ (last' = HStep("DialUpgradeError", index, PollPending)
                        /\ before.tag = "Opening") =>
                     /\ after = Closed(FALSE)
                     /\ conn'.negotiating[index] = 0]_vars

\* the request of an Opening that Close cancelled has completed the Opening
\* of a later Open: HandshakeError of the first and HandshakeCompleted of the
\* second are queued, and no request is left
C35_Witness ==
    \E index \in Indexes :
        /\ last = HStep("FullyNegotiatedOutbound", index, PollPending)
        /\ handler.protocols[index].tag = "Open"
        /\ Outstanding(index) = 0
        /\ \E j, k \in 1..Len(handler.pending_events) :
              /\ j < k
              /\ handler.pending_events[j] = EvHandshakeError(index)
              /\ handler.pending_events[k].kind = "HandshakeCompleted"
              /\ handler.pending_events[k].index = index

----------------------------------------------------------------------------
(* Properties of the authority discovery engine: progress without the
   timers *)

\* the authorities a get-record query was submitted for
Submitted(s) == Range(s.records_keys)

\* C36: when every query delivers a valid record of its authority, and
\* neither interval_exit nor interval_resubmit ticks in the loop, every
\* authority of the list is eventually submitted and remaining_authorities
\* eventually becomes empty.
C36_DeliveriesResolveAll ==
    <>[](/\ pc = "loop"
         /\ engine.interval_resubmit = 1
         /\ engine.interval_exit = 1
         /\ engine.query_index = Len(engine.authorities)
         /\ Submitted(engine) = Range(engine.authorities)
         /\ engine.remaining_authorities = {})

\* the last authority of a list longer than MAX_QUERIES has been resolved
\* without a tick, after an invalid record had taken a query out of the
\* queries in flight
C36_Witness ==
    /\ pc = "loop"
    /\ Len(engine.authorities) > MAX_QUERIES
    /\ engine.interval_resubmit = 1
    /\ engine.dht_errors = 1
    /\ engine.remaining_authorities = {}
    /\ last.action = "GetRecord"
    /\ last.valid
    /\ AuthorityOf(last) = engine.authorities[Len(engine.authorities)]

----------------------------------------------------------------------------
(* Properties of the report: the peer identifier of the stored addresses *)

\* C37: every address stored in authority_to_details ends in a P2p segment,
\* so the report never panics: whichever address it picks, every line is
\* printed and the summary after them.
C37_ReportNeverAborts ==
    /\ \A authority \in DOMAIN engine.authority_to_details :
          \A address \in engine.authority_to_details[authority] :
              get_peer_id(address) # None
    /\ last.action = "Report" =>
          /\ \A i \in 1..Len(last.lines) : last.lines[i].kind # Panic
          /\ last.summary # None

====
